---- MODULE Spec2Model ----
(***************************************************************************)
(* Falcon: the job orchestrator (app/queue/job_queue.py), the wiki         *)
(* generation pipeline (app/pipeline/orchestrator.py, writer.py), the wiki *)
(* service (app/services/wiki_service.py) and the in-process event bus     *)
(* (app/queue/event_bus.py), as state machines over the persisted rows and *)
(* the in-memory state of one server process.                              *)
(*                                                                         *)
(* Spec     the store, the orchestrator of one process and its job tasks,  *)
(*          with process crashes and restarts.                             *)
(* FairSpec Spec with the scheduling the event loop gives.                 *)
(* SpecBus  the event bus alone: publish, subscribe, unsubscribe, get.     *)
(***************************************************************************)
EXTENDS Integers, Sequences, FiniteSets, TLC

(* ------------------------------ bounds --------------------------------- *)
\* rows create_wiki may insert
MaxWikis == 2
\* distinct (owner, repo, branch) triples requests may name
MaxKeys == 1
\* process deaths (crashes, exits after a shutdown) a behaviour may contain
MaxCrashes == 1
\* sections of an analysis plan
MaxSections == 1
\* pages of one section of an analysis plan
MaxPagesPerSection == 1

\* queues subscribe may hand out
MaxQueues == 2
\* publish calls a behaviour of the event bus may contain
MaxPublish == 3
\* the setting max_concurrent_jobs (FALCON_MAX_CONCURRENT_JOBS)
MaxConcurrentJobs == 1

\* urls ingestion requests may name
MaxUrls == 2
\* ingestion requests that may be in progress at once
MaxIngests == 2
\* pieces (text between newlines) of the content of a file to read
MaxLines == 502
\* files of a repo that has a single directory, its root
MaxEntries == 201
\* lines of the long file of a repo to search
MaxSearchLines == 51
\* tool calls one model turn may carry
MaxCallsPerTurn == 2
\* lines of a file read with bounds, and those of one longer file
MaxSliceLines == 5
LongSliceLines == 30
\* sections of the plan of an execution followed step by step, and pages of a section
MaxPlanSections == 2
MaxSectionPages == 2

(* ------------------------- program constants --------------------------- *)
\* services/agent.py: MAX_ITERATIONS
MAX_ITERATIONS == 15
\* tools/shell.py: MAX_LIST_RESULTS
MAX_LIST_RESULTS == 200
\* tools/shell.py: MAX_FILE_LINES
MAX_FILE_LINES == 500
\* tools/shell.py: MAX_SEARCH_MATCHES
MAX_SEARCH_MATCHES == 50

\* config.py: max_concurrent_jobs, the default of the setting
DefaultMaxConcurrentJobs == 2
\* config.py: app_version
AppVersion == "0.1.0"

\* config.py: codex_max_concurrent
CodexMaxConcurrent == 3

\* jobs.max_attempts of a row inserted without it (job_max_attempts)
DefaultMaxAttempts == 3

VARIABLES
    wikis,          \* table wikis: sequence of rows, a row's id is its index
    jobs,           \* table jobs: sequence of rows, a row's id is its index
    procUp,         \* the server process is running (between start() and its death)
    crashes,        \* process deaths so far: crashes and exits after a shutdown
    running,        \* JobOrchestrator._running
    semaphore,      \* JobOrchestrator.semaphore: free slots
    pollPc,         \* position of _poll_loop: "none", "acquire", "dequeue"
    stopPc,         \* position of stop(): "none", "await_poll", "returned"
    tasks,          \* the _run_job tasks of the process, by task slot
    active_jobs,    \* JobOrchestrator.active_jobs: job id -> task slot
    subscribers,    \* EventBus._subscribers: wiki id -> sequence of queues
    queues,         \* the asyncio.Queue objects handed out: queue -> pending events
    emitted,        \* history: per wiki id, the type of the last event published for it
    published,      \* history (SpecBus): per wiki id, the events of the numbered publish calls
    delivered,      \* history: per queue, the events its consumer got, in order
    subscribedAt,   \* history: per queue, the id it subscribed to and Len(published[id]) then
    agent,          \* run_agent: its position, its iteration, the tool calls of the turn
                    \* still to dispatch, the messages appended since the last model call
    sse,            \* history: the events chat.event_stream has sent, summarized
    repos,          \* table repos: sequence of rows, a row's id is its index
    loaded,         \* the repo ids whose file records are in table files
    ingests,        \* the ingest_repo calls, by request slot: position, url, row, answer
    files,          \* table files, the rows of one repo in path order
    result,         \* the last tool call and the lines of the text it returned
    streams,        \* the wiki_events generators, by the queue each subscribed:
                    \* "waiting" in queue.get(), "yielded" at its yield, "ended"
    storage,        \* the wiki ids whose storage directory exists
    deletion,       \* one delete_wiki call: its position and the row it read
    pipeline        \* one WikiGenerationPipeline.execute() at the grain of its awaits:
                    \* its position, the page tasks of write_pages, and the history
                    \* of its status writes, its events and the pages it was yielded

vars == <<wikis, jobs, procUp, crashes, running, semaphore, pollPc, stopPc, tasks,
          active_jobs, subscribers, queues, emitted, published, delivered,
          subscribedAt, agent, sse, repos, loaded, ingests, files, result, streams, storage, deletion, pipeline>>

storeVars == <<wikis, jobs>>
orchVars  == <<procUp, crashes, running, semaphore, pollPc, stopPc, tasks, active_jobs>>
busVars   == <<subscribers, queues, emitted, published, delivered, subscribedAt>>
agentVars == <<agent, sse>>
ingestVars == <<repos, loaded, ingests>>
toolVars  == <<files, result>>
pipelineVars == <<pipeline, storage, deletion>>
streamVars == <<streams>>
chatVars  == <<agentVars, ingestVars, toolVars, pipelineVars, streamVars>>
wikiVars  == <<storeVars, orchVars, busVars>>

(* ------------------------------ helpers -------------------------------- *)
Range(s) == {s[i] : i \in DOMAIN s}

RECURSIVE SumSeq(_)
SumSeq(s) == IF s = <<>> THEN 0 ELSE Head(s) + SumSeq(Tail(s))

RECURSIVE FlattenSeq(_)
FlattenSeq(ss) == IF ss = <<>> THEN <<>> ELSE Head(ss) \o FlattenSeq(Tail(ss))

Keys == 1..MaxKeys
WikiIds == DOMAIN wikis
JobIds == DOMAIN jobs

WikiStatus == {"queued", "cloning", "analyzing", "generating", "indexing",
               "completed", "failed"}
JobStatus == {"queued", "running", "completed", "failed", "cancelled"}

NULL == "NULL"

(* ------------------- the store: tables wikis and jobs ------------------ *)
\* a row of table wikis as create_wiki inserts it (total_pages, completed_pages and
\* the timestamps take the schema's defaults)
NewWiki(k) ==
    [key |-> k, status |-> "queued", total_pages |-> 0, completed_pages |-> 0,
     started_at |-> NULL, completed_at |-> NULL, error_message |-> NULL]

\* a row of table jobs as create_wiki inserts it (attempts, max_attempts, priority and
\* created_at take the schema's defaults; created_at is the insertion time)
NewJob(w, now) ==
    [wiki_id |-> w, status |-> "queued", attempts |-> 0,
     max_attempts |-> DefaultMaxAttempts, priority |-> 0, created_at |-> now,
     started_at |-> NULL, completed_at |-> NULL, worker_id |-> NULL,
     error_message |-> NULL]

\* SELECT id, status FROM wikis WHERE owner = ? AND repo = ? AND branch = ?
WikisWithKey(k) == {w \in WikiIds : wikis[w].key = k}

\* create_wiki returns the fetched row's id instead of inserting
ReturnsExisting(row) == row # 0 /\ wikis[row].status = "completed"

\* a claim that does not look at the status
EligibleAnyStatus(job) == job.attempts < job.max_attempts

\* a claim that does not look at the attempts
EligibleAnyAttempts(job) == job.status = "queued"

\* WHERE status = 'queued' AND attempts < max_attempts
Eligible(job) == job.status = "queued" /\ job.attempts < job.max_attempts

\* a claim that takes any eligible job
IsNextJobUnordered(js, j) == j \in DOMAIN js /\ Eligible(js[j])

\* ORDER BY priority DESC, created_at ASC LIMIT 1
IsNextJob(js, j) ==
    /\ j \in DOMAIN js
    /\ Eligible(js[j])
    /\ \A k \in DOMAIN js :
          Eligible(js[k]) =>
             \/ js[j].priority > js[k].priority
             \/ /\ js[j].priority = js[k].priority
                /\ js[j].created_at <= js[k].created_at

\* SET status = 'running', started_at = datetime('now'), attempts = attempts + 1
ClaimJob(js, j) ==
    [js EXCEPT ![j].status = "running", ![j].started_at = "set",
               ![j].attempts = @ + 1]

\* a recovery that also requeues the failed jobs, with their attempts reset
RecoverJobsAndFailed(js) ==
    [j \in DOMAIN js |->
        IF js[j].status \in {"running", "failed"}
        THEN [js[j] EXCEPT !.status = "queued", !.worker_id = NULL, !.attempts = 0]
        ELSE js[j]]

\* start(): UPDATE jobs SET status = 'queued', worker_id = NULL WHERE status = 'running'
RecoverJobs(js) ==
    [j \in DOMAIN js |->
        IF js[j].status = "running"
        THEN [js[j] EXCEPT !.status = "queued", !.worker_id = NULL]
        ELSE js[j]]

\* _complete_job: UPDATE jobs SET status = 'completed', completed_at = now WHERE id = ?
CompleteJob(js, j) ==
    [js EXCEPT ![j].status = "completed", ![j].completed_at = "set"]

\* a failure handling that requeues the job whatever its attempts
AlwaysRetry(attempts, max_attempts) == TRUE

\* a failure handling without retries
NeverRetry(attempts, max_attempts) == FALSE

\* a retry test that is off by one
ShouldRetryOffByOne(attempts, max_attempts) == attempts <= max_attempts

\* _fail_job: if attempts < max_attempts (the values of the claimed row)
ShouldRetry(attempts, max_attempts) == attempts < max_attempts

\* _fail_job, the jobs table
FailJobRows(js, j, error, attempts, max_attempts) ==
    IF ShouldRetry(attempts, max_attempts)
    THEN [js EXCEPT ![j].status = "queued", ![j].error_message = error]
    ELSE [js EXCEPT ![j].status = "failed", ![j].error_message = error,
                    ![j].completed_at = "set"]

\* _fail_job, the wikis table: on final failure the wiki the job row names
FailJobWikis(ws, js, j, error, attempts, max_attempts) ==
    IF ShouldRetry(attempts, max_attempts) \/ js[j].wiki_id \notin DOMAIN ws
    THEN ws
    ELSE [ws EXCEPT ![js[j].wiki_id].status = "failed",
                    ![js[j].wiki_id].error_message = error]

\* _update_status: started_at on cloning, completed_at on completed
UpdateStatus(ws, w, status) ==
    IF w \notin DOMAIN ws THEN ws
    ELSE [ws EXCEPT ![w].status = status,
                    ![w].started_at = IF status = "cloning" THEN "set" ELSE @,
                    ![w].completed_at = IF status = "completed" THEN "set" ELSE @]

\* _update_page_counts
UpdatePageCounts(ws, w, total, completed) ==
    IF w \notin DOMAIN ws THEN ws
    ELSE [ws EXCEPT ![w].total_pages = total, ![w].completed_pages = completed]

(* ------------------------- the analysis plan --------------------------- *)
\* section ids a plan may carry: those _organize_waves names, and one it does not
SectionIds == {"", "architecture", "modules", "guides", "api-reference", "overview"}

\* the shape of a plan: per section its id and its number of pages
PlanShapes ==
    UNION {[1..n -> [id : SectionIds, n : 0..MaxPagesPerSection]] : n \in 0..MaxSections}

\* analysis["sections"]: the pages of section i are the slugs <<i, 1>>, <<i, 2>>, ...
PlanOf(shape) ==
    [i \in DOMAIN shape |->
        [id |-> shape[i].id, pages |-> [k \in 1..shape[i].n |-> <<i, k>>]]]

Plans == {PlanOf(shape) : shape \in PlanShapes}

\* execute: total_pages = sum(len(s["pages"]) for s in analysis["sections"])
TotalPages(analysis) ==
    SumSeq([i \in DOMAIN analysis |-> Len(analysis[i].pages)])

\* _organize_waves: all_pages, each page tagged with its section's id
AllPages(analysis) ==
    FlattenSeq([i \in DOMAIN analysis |->
        [k \in DOMAIN analysis[i].pages |->
            [slug |-> analysis[i].pages[k], section |-> analysis[i].id]]])

Wave1Sections == {"", "architecture"}
Wave2Sections == {"modules"}
Wave3Sections == {"guides", "api-reference"}

InWave1(p) == p.section \in Wave1Sections
InWave2(p) == p.section \in Wave2Sections
InWave3(p) == p.section \in Wave3Sections

\* _organize_waves: the non-empty waves, in order
OrganizeWaves(analysis) ==
    LET all   == AllPages(analysis)
        wave1 == SelectSeq(all, InWave1)
        wave2 == SelectSeq(all, InWave2)
        wave3 == SelectSeq(all, InWave3)
    IN  (IF wave1 # <<>> THEN <<[name |-> "architecture", pages |-> wave1]>> ELSE <<>>)
        \o (IF wave2 # <<>> THEN <<[name |-> "modules", pages |-> wave2]>> ELSE <<>>)
        \o (IF wave3 # <<>> THEN <<[name |-> "guides", pages |-> wave3]>> ELSE <<>>)

\* no delete_wiki call
NoDelete == [pc |-> "none", wiki_id |-> 0, row |-> FALSE]

\* WikiGenerationPipeline(wiki_id) before execute() is called
NoPipeline ==
    [pc |-> "none", wiki_id |-> 0, phase |-> 0, sandbox |-> FALSE, raised |-> FALSE,
     analysis |-> <<>>, total_pages |-> 0, completed |-> 0, waves |-> <<>>,
     page |-> <<>>, done |-> <<>>, codex |-> 0,
     writes |-> <<>>, events |-> <<>>, finished |-> {}, yielded |-> <<>>]

\* a sequence without its i-th element
RemoveAt(s, i) == SubSeq(s, 1, i - 1) \o SubSeq(s, i + 1, Len(s))

(* --------------------- the orchestrator's process ---------------------- *)
\* task slots: one more than the semaphore admits
TaskSlots == 1..(MaxConcurrentJobs + 1)

NoTask ==
    [pc |-> "none", job |-> 0, wiki_id |-> 0, attempts |-> 0, max_attempts |-> 0,
     sandbox |-> FALSE, total_pages |-> 0, completed |-> 0, waves |-> <<>>,
     error |-> NULL, cancel |-> FALSE]

\* asyncio.create_task(self._run_job(job)): job is the row the claim returned
NewTask(j, row) ==
    [NoTask EXCEPT !.pc = "start", !.job = j, !.wiki_id = row.wiki_id,
                   !.attempts = row.attempts, !.max_attempts = row.max_attempts]

InFlight == {t \in TaskSlots : tasks[t].pc # "none"}

\* the tasks that have not committed the outcome of their job
Executing == {t \in InFlight : tasks[t].pc # "ending"}

FreeSlots == TaskSlots \ InFlight

EmptyDict == [j \in {} |-> 0]

\* self.active_jobs[job["id"]] = task
DictPut(d, j, t) == [k \in DOMAIN d \cup {j} |-> IF k = j THEN t ELSE d[k]]

\* self.active_jobs.pop(job_id, None)
DictPop(d, j) == [k \in DOMAIN d \ {j} |-> d[k]]

\* an acquire that never waits
CanAcquireAlways(s) == TRUE

\* await self.semaphore.acquire() returns only when a slot is free
CanAcquire(s) == s > 0

\* the message of the exception a phase raises
ErrorOf(pc) ==
    CASE pc = "create_sandbox" -> "Git clone failed"
      [] pc = "metadata"       -> "HTTPStatusError"
      [] pc = "analyze"        -> "Codex analysis failed"
      [] OTHER                 -> "Codex CLI not found"

\* an exit from execute() that skips the finally
FinallyNoDestroy(sandbox) == sandbox

\* execute(): finally: await self.sandbox_manager.destroy_sandbox(sandbox); what the
\* execution still holds afterwards
FinallyDestroy(sandbox) == FALSE

\* the positions of a task inside the try block that follows create_sandbox
InSandboxScope == {"metadata", "analyze", "generating", "indexing"}

(* --------------------------- the event bus ----------------------------- *)
\* the wiki ids the bus is keyed by
BusIds == 1..MaxWikis

\* event["type"]
EventTypes == {"status_change", "page_complete", "complete", "error"}

QueueIds == DOMAIN queues

\* a lookup that returns the queues of every bucket
SubscribersOfAny(subs, id) == FlattenSeq([i \in 1..MaxWikis |->
                                  IF i \in DOMAIN subs THEN subs[i] ELSE <<>>])

\* self._subscribers.get(wiki_id, [])
SubscribersOf(subs, id) == IF id \in DOMAIN subs THEN subs[id] ELSE <<>>

\* a put at the head of the queue
QueuePutFront(q, event) == <<event>> \o q

\* queue.put(event) on an unbounded asyncio.Queue: never waits, appends
QueuePut(q, event) == Append(q, event)

\* publish: for queue in subscribers: await queue.put(event)
PublishTo(qs, subs, id, event) ==
    [q \in DOMAIN qs |->
        IF q \in Range(SubscribersOf(subs, id)) THEN QueuePut(qs[q], event) ELSE qs[q]]

\* subscribe: self._subscribers.setdefault(wiki_id, []).append(queue)
AddSubscriber(subs, id, q) == DictPut(subs, id, Append(SubscribersOf(subs, id), q))

\* an unsubscribe that keeps the bucket of the last subscriber
RemoveSubscriberKeepBucket(subs, id, q) ==
    LET NotQ(x) == x # q
    IN  IF id \in DOMAIN subs THEN DictPut(subs, id, SelectSeq(subs[id], NotQ))
        ELSE subs

\* unsubscribe: remove the queue if present; pop the bucket when it is empty
RemoveSubscriber(subs, id, q) ==
    LET NotQ(x) == x # q
        left == SelectSeq(SubscribersOf(subs, id), NotQ)
    IN  IF left = <<>> THEN DictPop(subs, id) ELSE DictPut(subs, id, left)

\* an event as the bus carries it: its type, its wiki id and, where the publish
\* calls are numbered, the ordinal of the call for that id
Event(id, type, n) == [type |-> type, wiki_id |-> id, n |-> n]

\* await event_bus.publish(wiki_id, event)
PublishEvent(id, event) ==
    /\ queues' = PublishTo(queues, subscribers, id, event)
    /\ emitted' = [emitted EXCEPT ![id] = event.type]

(* ----------------- the chat agent: services/agent.py ------------------- *)
\* TOOL_MAP
ToolNames == {"list_files", "read_file", "search_code"}

\* names a model may call: the tools, and one that is none
CallNames == ToolNames \cup {"run_shell"}

\* the parameters a tool function must be given, conn and repo_id apart
RequiredParams(name) ==
    CASE name = "list_files"  -> {}
      [] name = "read_file"   -> {"path"}
      [] name = "search_code" -> {"pattern"}

\* the parameters a tool function accepts, conn and repo_id apart
AcceptedParams(name) ==
    CASE name = "list_files"  -> {"path"}
      [] name = "read_file"   -> {"path", "start_line", "end_line"}
      [] name = "search_code" -> {"pattern", "glob"}

\* the accumulated arguments_str of a call: well-formed JSON for an object with
\* these keys, or malformed JSON
ArgumentStrings ==
    {[valid |-> TRUE, keys |-> {"path"}], [valid |-> FALSE, keys |-> {}]}

\* try: json.loads(arguments_str) except JSONDecodeError: {}; the keys of the result
JsonLoads(str) == IF str.valid THEN str.keys ELSE {}

\* func(conn, repo_id, **arguments) binds its parameters
Fits(name, keys) == RequiredParams(name) \subseteq keys /\ keys \subseteq AcceptedParams(name)

\* a tool call as the stream delivers it; fails: the tool's query will raise (told
\* apart only for a call that reaches the tool's body)
ToolCalls ==
    {c \in [name : CallNames, arguments_str : ArgumentStrings, fails : BOOLEAN] :
        c.fails => /\ c.name \in ToolNames
                   /\ Fits(c.name, JsonLoads(c.arguments_str))}

\* the tool calls of one model turn, in index order
TurnCalls == UNION {[1..n -> ToolCalls] : n \in 0..MaxCallsPerTurn}

\* execute_tool(conn, repo_id, name, arguments): the text it returns or the
\* exception that leaves it
ExecuteTool(name, keys, fails) ==
    IF name \notin ToolNames THEN [raised |-> FALSE, text |-> "Unknown tool"]
    ELSE IF ~Fits(name, keys) THEN [raised |-> TRUE, text |-> "TypeError"]
    ELSE IF fails THEN [raised |-> TRUE, text |-> "PostgresError"]
    ELSE [raised |-> FALSE, text |-> "output"]

\* a cap that admits one iteration more
WithinCapOffByOne(iteration) == iteration <= MAX_ITERATIONS

\* for iteration in range(MAX_ITERATIONS)
WithinCap(iteration) == iteration < MAX_ITERATIONS

\* run_agent after its messages are built (system prompt and question)
NewRun ==
    [pc |-> "call", iteration |-> 0, toolTurns |-> 0, pending |-> <<>>,
     turn |-> <<>>, nmessages |-> 2, error |-> NULL]

\* an event of the chat stream
ChatEvent(type, content) == [type |-> type, content |-> content]

\* nothing sent yet
NoEvents == [last2 |-> <<>>, ndone |-> 0, nerror |-> 0, late |-> FALSE]

\* the stream after one more event: its last two events, the numbers of done and
\* error events, and whether an event followed a done or an error
Emit(s, ev) ==
    [last2  |-> IF Len(s.last2) < 2 THEN Append(s.last2, ev) ELSE <<s.last2[2], ev>>,
     ndone  |-> s.ndone + (IF ev.type = "done" THEN 1 ELSE 0),
     nerror |-> s.nerror + (IF ev.type = "error" THEN 1 ELSE 0),
     late   |-> s.late \/ s.ndone > 0 \/ s.nerror > 0]

RECURSIVE EmitAll(_, _)
EmitAll(s, evs) == IF evs = <<>> THEN s ELSE EmitAll(Emit(s, Head(evs)), Tail(evs))

\* an exception handler that sends nothing
OnExceptionSilent(s, message) == s

\* chat.event_stream: except Exception as e: yield the error event
OnException(s, message) == Emit(s, ChatEvent("error", message))

(* --------------- repo ingestion: services/ingestion.py ----------------- *)
Urls == 1..MaxUrls

IngestSlots == 1..MaxIngests

RepoIds == DOMAIN repos

NoCall == [pc |-> "idle", url |-> 0, repo |-> 0, tmpdir |-> FALSE, answer |-> NULL]

\* SELECT id, status FROM repos WHERE url = $1 (url is UNIQUE): the row's id, or 0
RepoWithUrl(url) ==
    IF \E r \in RepoIds : repos[r].url = url
    THEN CHOOSE r \in RepoIds : repos[r].url = url
    ELSE 0

\* a failure handler that leaves the status as it is
KeepStatus(status) == status

\* except Exception: UPDATE repos SET status = 'error' WHERE id = $1
StatusOnFailure(status) == "error"

(* ------------ file rows and the tools: tools/shell.py ------------------ *)
\* A string is the sequence of its tokens: "/", ".", " | ", "*" and the runs of other
\* characters between them. A file name is a string without "/"; a path is its
\* segments joined by "/". A content is the sequence of its pieces, the strings
\* between its newline characters (a content ending in a newline has an empty last
\* piece), so content.split("\n") is the sequence itself.

\* SQL NULL in a column of text
NullText == <<NULL>>

\* an optional integer argument: None, or the integer given
None == <<>>
Some(n) == <<n>>

\* no tool call yet
NoResult == [tool |-> NULL, path |-> <<>>, start_line |-> None, end_line |-> None,
             glob |-> <<>>, lines |-> <<>>]

Digits == <<"0", "1", "2", "3", "4", "5", "6", "7", "8", "9">>

\* str(n)
RECURSIVE Str(_)
Str(n) ==
    IF n < 0 THEN <<"-">> \o Str(-n)
    ELSE IF n < 10 THEN <<Digits[n + 1]>>
    ELSE Str(n \div 10) \o <<Digits[(n % 10) + 1]>>

RECURSIVE JoinPath(_)
JoinPath(segments) ==
    IF segments = <<>> THEN <<>>
    ELSE IF Len(segments) = 1 THEN Head(segments)
    ELSE Head(segments) \o <<"/">> \o JoinPath(Tail(segments))

\* str.lower() on a token
Lower(token) ==
    CASE token = "PY" -> "py"
      [] token = "X"  -> "x"
      [] token = "README" -> "readme"
      [] OTHER -> token

\* _get_extension: os.path.splitext(filename)[1].lower(); the extension starts at
\* the last dot that has a token other than a dot before it
GetExtension(name) ==
    LET dots == {i \in DOMAIN name : name[i] = "." /\ \E k \in 1..(i - 1) : name[k] # "."}
    IN  IF dots = {} THEN <<>>
        ELSE LET i == CHOOSE d \in dots : \A e \in dots : e <= d
             IN  [k \in 1..(Len(name) - i + 1) |-> Lower(name[i + k - 1])]

\* SKIP_EXTENSIONS, one of them
SkipExtensions == {<<".", "png">>}

\* the content of the small files
SmallContent == <<<<"x">>>>

\* the record of a file at the given segments
FileRow(segments, content) ==
    LET name == segments[Len(segments)]
        ext  == GetExtension(name)
    IN  [path |-> JoinPath(segments), name |-> name,
         extension |-> IF ext = <<>> THEN NullText ELSE ext,
         parent_path |-> JoinPath(SubSeq(segments, 1, Len(segments) - 1)),
         depth |-> Len(segments), is_directory |-> FALSE, content |-> content]

\* the record of a directory at the given segments
DirRow(segments) ==
    [path |-> JoinPath(segments), name |-> segments[Len(segments)],
     extension |-> NullText,
     parent_path |-> JoinPath(SubSeq(segments, 1, Len(segments) - 1)),
     depth |-> Len(segments), is_directory |-> TRUE, content |-> NullText]

\* the entries a cloned tree may have, in path order
TreeEntries ==
    << [segments |-> << <<"README">> >>, dir |-> FALSE],
       [segments |-> << <<"main", ".", "py">> >>, dir |-> FALSE],
       [segments |-> << <<"src">> >>, dir |-> TRUE],
       [segments |-> << <<"src">>, <<"X", ".", "PY">> >>, dir |-> FALSE],
       [segments |-> << <<"src">>, <<"app", ".", "py">> >>, dir |-> FALSE],
       [segments |-> << <<"src">>, <<"lib", ".", "js">> >>, dir |-> FALSE],
       [segments |-> << <<"src">>, <<"logo", ".", "png">> >>, dir |-> FALSE],
       [segments |-> << <<"src">>, <<"pkg", ".", "py">> >>, dir |-> TRUE] >>

\* the trees: sets of entries that hold the directory of each of their entries
Trees ==
    {tree \in SUBSET Range(TreeEntries) :
        \A e \in tree :
            Len(e.segments) > 1 =>
                [segments |-> SubSeq(e.segments, 1, Len(e.segments) - 1), dir |-> TRUE]
                    \in tree}

\* _collect_file_records: a row per directory and per file that is not skipped (of
\* the skip rules the one on extensions is exercised)
CollectFileRecords(tree) ==
    LET Kept(e) == e \in tree /\ (e.dir \/ GetExtension(e.segments[Len(e.segments)])
                                              \notin SkipExtensions)
        kept == SelectSeq(TreeEntries, Kept)
    IN  [i \in DOMAIN kept |->
            IF kept[i].dir THEN DirRow(kept[i].segments)
            ELSE FileRow(kept[i].segments, SmallContent)]

\* fnmatch.fnmatch(str, pat): "*" matches any run of tokens, "/" included; "?" one
\* token; any other token itself
RECURSIVE FnMatch(_, _)
FnMatch(str, pat) ==
    IF pat = <<>> THEN str = <<>>
    ELSE IF Head(pat) = "*"
         THEN FnMatch(str, Tail(pat)) \/ (str # <<>> /\ FnMatch(Tail(str), pat))
    ELSE IF Head(pat) = "?"
         THEN str # <<>> /\ FnMatch(Tail(str), Tail(pat))
    ELSE str # <<>> /\ Head(str) = Head(pat) /\ FnMatch(Tail(str), Tail(pat))

\* str.lstrip(chars)
RECURSIVE LStrip(_, _)
LStrip(str, chars) ==
    IF str # <<>> /\ Head(str) \in chars THEN LStrip(Tail(str), chars) ELSE str

\* str.rstrip(chars)
RECURSIVE RStrip(_, _)
RStrip(str, chars) ==
    IF str # <<>> /\ str[Len(str)] \in chars
    THEN RStrip(SubSeq(str, 1, Len(str) - 1), chars)
    ELSE str

\* str.strip(chars)
Strip(str, chars) == LStrip(RStrip(str, chars), chars)

\* seq[:n] for n >= 0
Take(seq, n) == SubSeq(seq, 1, IF n < Len(seq) THEN n ELSE Len(seq))

\* list_files, glob mode: fnmatch.fnmatch(row["path"], path)
Listed(row, pat) == FnMatch(row.path, pat)

\* list_files(conn, repo_id, path): the lines of the text it returns
ListFilesLines(rows, arg) ==
    LET stripped == Strip(arg, {"/"})
        path     == IF stripped = <<".">> THEN <<>> ELSE stripped
        Line(row) == IF row.is_directory THEN row.path \o <<"/">> ELSE row.path
        NameLine(row) == IF row.is_directory THEN row.name \o <<"/">> ELSE row.name
    IN  IF "*" \in Range(path) \/ "?" \in Range(path)
        THEN LET Match(row) == Listed(row, path)
                 matched == SelectSeq(rows, Match)
                 shown   == Take(matched, MAX_LIST_RESULTS)
             IN  IF matched = <<>> THEN << <<"No files matching: ">> \o path >>
                 ELSE [i \in DOMAIN shown |-> Line(shown[i])]
                      \o (IF Len(matched) > MAX_LIST_RESULTS
                          THEN << <<>>, <<"... ">>
                                         \o Str(Len(matched) - MAX_LIST_RESULTS)
                                         \o <<" more results. Narrow your glob.">> >>
                          ELSE <<>>)
        ELSE LET IsDirIn(row) == row.parent_path = path /\ row.is_directory
                 IsFileIn(row) == row.parent_path = path /\ ~row.is_directory
                 listed == SelectSeq(rows, IsDirIn) \o SelectSeq(rows, IsFileIn)
             IN  IF listed = <<>>
                 THEN << <<"ls: cannot access '">>
                         \o (IF path = <<>> THEN <<".">> ELSE path)
                         \o <<"': No such file or directory">> >>
                 ELSE [i \in DOMAIN listed |-> NameLine(listed[i])]

\* the arguments list_files is called with
ListArgs ==
    { <<"*", "*", "/", "*", ".", "py">>, <<"*", "*", "/", "*", ".", "js">>,
      <<>>, <<"src", "/">>, <<"docs">>, <<"*">> }

\* the name of the i-th file of a repo that has a single directory: f001, f002, ...
FlatName(i) == <<"f">> \o Tail(Str(1000 + i))

\* the rows of a repo of n files in its root
FlatRepo(n) == [i \in 1..n |-> FileRow(<<FlatName(i)>>, SmallContent)]

(* search_code *)
\* the tokens of [a-zA-Z0-9_] characters, and their lengths
Alnum == {"TODO", "FIXME", "def", "authenticate", "x", "s"}

CharLen(token) ==
    CASE token = "TODO" -> 4
      [] token = "FIXME" -> 5
      [] token = "def" -> 3
      [] token = "authenticate" -> 12
      [] OTHER -> 1

\* the maximal runs of [a-zA-Z0-9_] tokens of a pattern, cur being the run so far
RECURSIVE Runs(_, _)
Runs(pattern, cur) ==
    LET done == IF cur = <<>> THEN <<>> ELSE <<cur>>
    IN  IF pattern = <<>> THEN done
        ELSE IF Head(pattern) \in Alnum
             THEN Runs(Tail(pattern), Append(cur, Head(pattern)))
             ELSE done \o Runs(Tail(pattern), <<>>)

\* _extract_literals: re.findall(r"[a-zA-Z0-9_]{3,}", pattern)
ExtractLiterals(pattern) ==
    LET Long(run) == SumSeq([i \in DOMAIN run |-> CharLen(run[i])]) >= 3
    IN  SelectSeq(Runs(pattern, <<>>), Long)

\* re.compile(pattern) raises re.error: of the patterns drawn, the ones that open a
\* group and do not close it
InvalidRegex(pattern) == "(" \in Range(pattern)

\* the atoms of a pattern: the escape \s+ is one atom
RECURSIVE Atoms(_)
Atoms(pattern) ==
    IF pattern = <<>> THEN <<>>
    ELSE IF Len(pattern) >= 3 /\ SubSeq(pattern, 1, 3) = <<"\\", "s", "+">>
         THEN <<"\\s+">> \o Atoms(SubSeq(pattern, 4, Len(pattern)))
    ELSE <<Head(pattern)>> \o Atoms(Tail(pattern))

\* the alternatives of a pattern: its atoms between the "|"
RECURSIVE Alternatives(_, _)
Alternatives(atoms, cur) ==
    IF atoms = <<>> THEN <<cur>>
    ELSE IF Head(atoms) = "|" THEN <<cur>> \o Alternatives(Tail(atoms), <<>>)
    ELSE Alternatives(Tail(atoms), Append(cur, Head(atoms)))

\* the alternative matches a prefix of the string
RECURSIVE MatchAt(_, _)
MatchAt(alt, str) ==
    IF alt = <<>> THEN TRUE
    ELSE IF Head(alt) = "\\s+"
         THEN /\ str # <<>> /\ Head(str) = " "
              /\ (MatchAt(alt, Tail(str)) \/ MatchAt(Tail(alt), Tail(str)))
    ELSE str # <<>> /\ Head(str) = Head(alt) /\ MatchAt(Tail(alt), Tail(str))

\* compiled.search(line)
Search(pattern, line) ==
    LET alts == Alternatives(Atoms(pattern), <<>>)
    IN  \E a \in DOMAIN alts : \E i \in 1..(Len(line) + 1) :
            MatchAt(alts[a], SubSeq(line, i, Len(line)))

\* content LIKE '%literal%'
ContentLike(content, literal) ==
    \E k \in DOMAIN content : \E i \in 1..(Len(content[k]) + 1) :
        /\ i + Len(literal) - 1 <= Len(content[k])
        /\ SubSeq(content[k], i, i + Len(literal) - 1) = literal

\* re.match(r"^\*(\.\w+)$", glob)
IsExtensionGlob(glob) ==
    Len(glob) = 3 /\ glob[1] = "*" /\ glob[2] = "." /\ glob[3] \notin {"*", "?", ".", "/"}

\* the WHERE clause of search_code; no glob is the empty one
Candidate(row, literals, glob) ==
    /\ ~row.is_directory
    /\ \A i \in DOMAIN literals : ContentLike(row.content, literals[i])
    /\ glob # <<>> =>
          IF IsExtensionGlob(glob) THEN row.extension = Tail(glob)
          ELSE FnMatch(row.name, glob)

\* the output lines of the matching lines of one row: path:line_num:line
MatchLines(row, pattern) ==
    LET Hit(i) == Search(pattern, row.content[i])
        hits   == SelectSeq([i \in DOMAIN row.content |-> i], Hit)
    IN  [k \in DOMAIN hits |->
            row.path \o <<":">> \o Str(hits[k]) \o <<":">> \o row.content[hits[k]]]

\* search_code(conn, repo_id, pattern, glob): the lines of the text it returns
SearchCodeLines(rows, pattern, glob) ==
    IF InvalidRegex(pattern) THEN << <<"Invalid regex: ">> >>
    ELSE
    LET literals == ExtractLiterals(pattern)
        IsCandidate(row) == Candidate(row, literals, glob)
        found  == SelectSeq(rows, IsCandidate)
        output == FlattenSeq([i \in DOMAIN found |-> MatchLines(found[i], pattern)])
    IN  IF output = <<>> THEN << <<"No matches found for pattern: ">> \o pattern >>
        ELSE IF Len(output) >= MAX_SEARCH_MATCHES
             THEN Take(output, MAX_SEARCH_MATCHES)
                  \o << <<>>, <<"... truncated at ">> \o Str(MAX_SEARCH_MATCHES)
                            \o <<" matches. Narrow with glob or a more specific pattern.">> >>
        ELSE output

\* the lines of the files of a repo to search
SearchLines ==
    { <<"x", " ", "TODO">>, <<"FIXME">>, <<"def", " ", "authenticate">>, <<"x">> }

\* the contents of the files of a repo to search: one or two lines, or a long file
\* of matching lines
SearchContents ==
    {<<l>> : l \in SearchLines} \cup {<<l, m>> : l \in SearchLines, m \in SearchLines}
        \cup {[i \in 1..MaxSearchLines |-> <<"x", " ", "TODO">>]}

\* the patterns search_code is called with
Patterns ==
    { <<"TODO">>, <<"TODO", "|", "FIXME">>, <<"def", "\\", "s", "+", "authenticate">>,
      <<"\\", "s", "+">>, <<"(", "TODO">> }

\* the globs search_code is called with: none, *.py, b*
Globs == { <<>>, <<"*", ".", "py">>, <<"b", "*">> }

\* the name of the file to read
ReadName == <<"notes", ".", "md">>

\* the piece i of a content: in style 1 every piece is x, in style 2 the odd pieces
\* are empty and the even ones hold a " | "
Piece(style, i) ==
    IF style = 1 THEN <<"x">>
    ELSE IF i % 2 = 1 THEN <<>> ELSE <<"x", " | ", "y">>

\* the contents of the file to read
Contents == {[i \in 1..n |-> Piece(style, i)] : n \in 1..MaxLines, style \in 1..2}

\* the contents of a file read with bounds: line i holds its position i
SliceContents ==
    {[i \in 1..n |-> <<"line ">> \o Str(i)] : n \in 1..MaxSliceLines \cup {LongSliceLines}}

\* len(str(n))
StrLen(n) == Len(Str(n))

\* seq[s:e] for s >= 0 and any e: a negative e counts from the end
PySlice(seq, s, e) ==
    LET n    == Len(seq)
        stop == IF e < 0 THEN (IF n + e < 0 THEN 0 ELSE n + e)
                ELSE IF e > n THEN n ELSE e
    IN  IF s >= stop THEN <<>> ELSE SubSeq(seq, s + 1, stop)

\* seq[start:] for start < 0: the last -start elements, all if there are fewer
PyTail(seq, start) ==
    LET n == Len(seq)
    IN  SubSeq(seq, (IF n + start < 0 THEN 0 ELSE n + start) + 1, n)

\* a numbering that starts at 0
NumberFromZero(first_num, i) == first_num + i - 2

\* num = first_num + i for the i-th selected line, counted from 0 (here from 1)
NumberOf(first_num, i) == first_num + i - 1

\* f"{num:>{width}} | {line}"
FormatLine(num, width, line) ==
    [k \in 1..(IF width > StrLen(num) THEN width - StrLen(num) ELSE 0) |-> " "]
        \o Str(num) \o <<" | ">> \o line

\* read_file(conn, repo_id, path, start_line, end_line): the lines of the text it
\* returns
ReadFileLines(rows, arg, start_line, end_line) ==
    LET path == LStrip(Strip(arg, {"/"}), {".", "/"})
        hits == {i \in DOMAIN rows : rows[i].path = path}
    IN  IF hits = {} THEN << <<"Error: ">> \o path \o <<": No such file or directory">> >>
        ELSE LET row == rows[CHOOSE i \in hits : TRUE]
             IN  IF row.is_directory
                 THEN << <<"Error: ">> \o path \o <<": Is a directory">> >>
                 ELSE
        LET lines == row.content
            total == Len(lines)
            tail  == start_line # None /\ start_line[1] < 0
            s     == (IF start_line = None \/ start_line = Some(0) THEN 1
                      ELSE start_line[1]) - 1
            e     == IF end_line = None \/ end_line = Some(0) THEN total ELSE end_line[1]
            slice == IF tail THEN PyTail(lines, start_line[1]) ELSE PySlice(lines, s, e)
            first_num == IF tail THEN total + start_line[1] + 1 ELSE s + 1
            truncated == Len(slice) > MAX_FILE_LINES
            selected  == Take(slice, MAX_FILE_LINES)
            width     == StrLen(first_num + Len(selected) - 1)
        IN  [i \in DOMAIN selected |->
                FormatLine(NumberOf(first_num, i), width, selected[i])]
            \o (IF truncated
                THEN << <<>>, <<"... truncated (">> \o Str(total)
                               \o <<" total lines). Use start_line/end_line to read specific sections.">> >>
                ELSE <<>>)

\* no process yet: JobOrchestrator.__init__ with the setting max_concurrent_jobs
InitOrchestrator(max_concurrent) ==
    /\ procUp = FALSE
    /\ crashes = 0
    /\ running = FALSE
    /\ semaphore = max_concurrent
    /\ pollPc = "none"
    /\ stopPc = "none"
    /\ tasks = [t \in TaskSlots |-> NoTask]
    /\ active_jobs = EmptyDict

\* EventBus.__init__
InitBus ==
    /\ subscribers = EmptyDict
    /\ queues = <<>>
    /\ emitted = [id \in BusIds |-> NULL]
    /\ published = [id \in BusIds |-> <<>>]
    /\ delivered = <<>>
    /\ subscribedAt = <<>>

InitWiki ==
    /\ wikis = <<>>
    /\ jobs = <<>>
    /\ InitOrchestrator(MaxConcurrentJobs)
    /\ InitBus

\* a chat request has been accepted; run_agent has built its messages
InitChat ==
    /\ agent = NewRun
    /\ sse = NoEvents

\* the schema is created, no repo is ingested, no request is in progress
InitIngest ==
    /\ repos = <<>>
    /\ loaded = {}
    /\ ingests = [c \in IngestSlots |-> NoCall]

\* no file row, no tool call yet
InitTools ==
    /\ files = <<>>
    /\ result = NoResult

\* no pipeline is followed step by step, no event stream is open
InitPipeline ==
    /\ pipeline = NoPipeline
    /\ storage = {}
    /\ deletion = NoDelete
    /\ streams = <<>>

Init == InitWiki /\ InitChat /\ InitIngest /\ InitTools /\ InitPipeline

\* the orchestrator constructed with the default of max_concurrent_jobs
InitDefault ==
    /\ wikis = <<>>
    /\ jobs = <<>>
    /\ InitOrchestrator(DefaultMaxConcurrentJobs)
    /\ InitBus
    /\ InitChat /\ InitIngest /\ InitTools /\ InitPipeline

\* the row of a wiki an earlier process left in the given status
LeftWiki(k, status) ==
    [NewWiki(k) EXCEPT
        !.status = status,
        !.started_at = IF status = "queued" THEN NULL ELSE "set",
        !.completed_at = IF status = "completed" THEN "set" ELSE NULL,
        !.error_message = IF status = "failed" THEN "Git clone failed" ELSE NULL]

\* the row of its job: failed after max_attempts executions, completed by the first,
\* running in the first when the process died (worker_id, which no code under src/
\* writes, is set on the running rows)
LeftJob(w, status) ==
    [NewJob(w, w) EXCEPT
        !.status = CASE status = "queued" -> "queued"
                     [] status = "completed" -> "completed"
                     [] status = "failed" -> "failed"
                     [] OTHER -> "running",
        !.attempts = CASE status = "queued" -> 0
                       [] status = "failed" -> DefaultMaxAttempts
                       [] OTHER -> 1,
        !.started_at = IF status = "queued" THEN NULL ELSE "set",
        !.worker_id = IF status \in {"queued", "completed", "failed"} THEN NULL
                      ELSE "worker",
        !.completed_at = IF status \in {"completed", "failed"} THEN "set" ELSE NULL,
        !.error_message = IF status = "failed" THEN "Git clone failed" ELSE NULL]

\* the values of jobs.priority and jobs.created_at a table to claim from may hold
Priorities == 0..1
CreatedAts == 1..2

\* the poll loop holds a slot and is about to run _dequeue_next on a table of up to
\* MaxWikis jobs; the statement is checked for every such table, the priorities that
\* no code under src/ writes included
InitClaim ==
    /\ \E n \in 0..MaxWikis :
        \E row \in [1..n -> [status : {"queued", "running", "completed", "failed"},
                             attempts : 0..DefaultMaxAttempts,
                             priority : Priorities,
                             created_at : CreatedAts]] :
          /\ wikis = [w \in 1..n |-> NewWiki(1)]
          /\ jobs = [w \in 1..n |->
                        [NewJob(w, row[w].created_at) EXCEPT
                            !.status = row[w].status,
                            !.attempts = row[w].attempts,
                            !.priority = row[w].priority]]
    /\ procUp = TRUE
    /\ crashes = 0
    /\ running = TRUE
    /\ semaphore = MaxConcurrentJobs - 1
    /\ pollPc = "dequeue"
    /\ stopPc = "none"
    /\ tasks = [t \in TaskSlots |-> NoTask]
    /\ active_jobs = EmptyDict
    /\ InitBus
    /\ InitChat /\ InitIngest /\ InitTools /\ InitPipeline

\* a process is about to start on the tables earlier processes left: up to MaxWikis
\* wikis, each with its job
InitCreate ==
    /\ \E n \in 0..MaxWikis : \E left \in [1..n -> Keys \X WikiStatus] :
          /\ wikis = [w \in 1..n |-> LeftWiki(left[w][1], left[w][2])]
          /\ jobs = [w \in 1..n |-> LeftJob(w, left[w][2])]
    /\ InitOrchestrator(MaxConcurrentJobs)
    /\ InitBus
    /\ InitChat /\ InitIngest /\ InitTools /\ InitPipeline

\* a repo has been ingested from one of the trees; no tool call yet
InitList ==
    /\ InitWiki /\ InitChat /\ InitIngest /\ InitPipeline
    /\ files \in {CollectFileRecords(tree) : tree \in Trees}
                   \cup {FlatRepo(n) : n \in 1..MaxEntries}
    /\ result = NoResult

\* a repo of two files and a directory has been ingested; no tool call yet
InitSearch ==
    /\ InitWiki /\ InitChat /\ InitIngest /\ InitPipeline
    /\ files \in {<<FileRow(<< <<"a", ".", "py">> >>, c1),
                     FileRow(<< <<"b", ".", "js">> >>, c2),
                     DirRow(<< <<"d">> >>)>> : c1 \in SearchContents, c2 \in SearchContents}
    /\ result = NoResult

\* a repo of one file has been ingested; no tool call yet
InitRead ==
    /\ InitWiki /\ InitChat /\ InitIngest /\ InitPipeline
    /\ files \in {<<FileRow(<<ReadName>>, content)>> : content \in Contents}
    /\ result = NoResult

\* create_wiki, the tables: fetchone() gives one of the rows with the key (the
\* SELECT has no ORDER BY), 0 if there is none; the two INSERTs are one transaction;
\* at most max_rows wikis are inserted
CreateWikiRows(k, max_rows) ==
    \E row \in WikisWithKey(k) \cup {0} :
        /\ row = 0 <=> WikisWithKey(k) = {}
        /\ IF ReturnsExisting(row)
           THEN UNCHANGED storeVars
           ELSE /\ Len(wikis) < max_rows
                /\ wikis' = Append(wikis, NewWiki(k))
                /\ jobs' = Append(jobs, NewJob(Len(wikis) + 1, Len(jobs) + 1))

\* WikiService.create_wiki(owner, repo, github_url, branch); requests are served
\* between startup and shutdown
CreateWiki(k) ==
    /\ procUp /\ stopPc = "none"
    /\ CreateWikiRows(k, MaxWikis)
    /\ UNCHANGED <<orchVars, busVars, chatVars>>

\* create_wiki in a process that started on the tables earlier processes left: one
\* more row may be inserted
CreateWikiAgain(k) ==
    /\ procUp /\ stopPc = "none"
    /\ CreateWikiRows(k, MaxWikis + 1)
    /\ UNCHANGED <<orchVars, busVars, chatVars>>

\* JobOrchestrator.start(), called once when the process starts
Start ==
    /\ ~procUp
    /\ jobs' = RecoverJobs(jobs)
    /\ procUp' = TRUE
    /\ running' = TRUE
    /\ pollPc' = "acquire"
    /\ UNCHANGED <<wikis, crashes, semaphore, stopPc, tasks, active_jobs, busVars, chatVars>>

\* the process is gone: its tasks, its orchestrator and its event bus with it; the
\* next process constructs new ones
ProcessGone ==
    /\ procUp' = FALSE
    /\ running' = FALSE
    /\ semaphore' = MaxConcurrentJobs
    /\ pollPc' = "none"
    /\ stopPc' = "none"
    /\ tasks' = [t \in TaskSlots |-> NoTask]
    /\ active_jobs' = EmptyDict
    /\ subscribers' = EmptyDict
    /\ queues' = <<>>
    /\ emitted' = [id \in BusIds |-> NULL]
    /\ published' = [id \in BusIds |-> <<>>]
    /\ delivered' = <<>>
    /\ subscribedAt' = <<>>

\* the process dies
Crash ==
    /\ procUp
    /\ crashes < MaxCrashes
    /\ crashes' = crashes + 1
    /\ ProcessGone
    /\ UNCHANGED <<storeVars, chatVars>>

\* the process ends after the shutdown: lifespan has awaited stop()
Exit ==
    /\ procUp
    /\ stopPc = "returned"
    /\ crashes < MaxCrashes
    /\ crashes' = crashes + 1
    /\ ProcessGone
    /\ UNCHANGED <<storeVars, chatVars>>

\* _poll_loop: while self._running: await self.semaphore.acquire()
PollAcquire ==
    /\ procUp /\ running
    /\ pollPc = "acquire"
    /\ CanAcquire(semaphore)
    /\ semaphore' = semaphore - 1
    /\ pollPc' = "dequeue"
    /\ UNCHANGED <<storeVars, procUp, crashes, running, stopPc, tasks, active_jobs,
                   busVars, chatVars>>

\* _poll_loop: _dequeue_next claimed a job; spawn its task, sleep
PollClaim ==
    /\ procUp /\ stopPc = "none"
    /\ pollPc = "dequeue"
    /\ FreeSlots # {}
    /\ \E j \in JobIds :
          /\ IsNextJob(jobs, j)
          /\ jobs' = ClaimJob(jobs, j)
          /\ LET t == CHOOSE x \in FreeSlots : \A y \in FreeSlots : x <= y
             IN  /\ tasks' = [tasks EXCEPT ![t] = NewTask(j, jobs'[j])]
                 /\ active_jobs' = DictPut(active_jobs, j, t)
    /\ pollPc' = "acquire"
    /\ UNCHANGED <<wikis, procUp, crashes, running, semaphore, stopPc, busVars, chatVars>>

\* _poll_loop: _dequeue_next returned None; release the slot, sleep
PollEmpty ==
    /\ procUp /\ stopPc = "none"
    /\ pollPc = "dequeue"
    /\ ~ \E j \in JobIds : IsNextJob(jobs, j)
    /\ semaphore' = semaphore + 1
    /\ pollPc' = "acquire"
    /\ UNCHANGED <<storeVars, procUp, crashes, running, stopPc, tasks, active_jobs,
                   busVars, chatVars>>

\* _poll_loop: _dequeue_next raised before its commit; release the slot, sleep
PollError ==
    /\ procUp /\ stopPc = "none"
    /\ pollPc = "dequeue"
    /\ semaphore' = semaphore + 1
    /\ pollPc' = "acquire"
    /\ UNCHANGED <<storeVars, procUp, crashes, running, stopPc, tasks, active_jobs,
                   busVars, chatVars>>

(* ------------------------------ shutdown ------------------------------- *)
\* stop(): self._running = False; self._poll_task.cancel(); await self._poll_task
Stop ==
    /\ procUp
    /\ stopPc = "none"
    /\ running' = FALSE
    /\ stopPc' = "await_poll"
    /\ UNCHANGED <<storeVars, procUp, crashes, semaphore, pollPc, tasks, active_jobs,
                   busVars, chatVars>>

\* _poll_loop receives CancelledError at its await. In the sleep or in acquire() it
\* ends without a slot. In _dequeue_next it ends holding the slot (break, no release),
\* and the claim was committed or not: a committed claim leaves the job running
\* without a task.
PollCancelled ==
    /\ procUp
    /\ stopPc = "await_poll"
    /\ pollPc # "none"
    /\ \/ UNCHANGED jobs
       \/ /\ pollPc = "dequeue"
          /\ \E j \in JobIds : IsNextJob(jobs, j) /\ jobs' = ClaimJob(jobs, j)
    /\ pollPc' = "none"
    /\ UNCHANGED <<wikis, procUp, crashes, running, semaphore, stopPc, tasks,
                   active_jobs, busVars, chatVars>>

\* stop(), after the poll task ended: for job_id, task in self.active_jobs.items():
\* task.cancel(); then stop() returns
StopCancelTasks ==
    /\ procUp
    /\ stopPc = "await_poll"
    /\ pollPc = "none"
    /\ tasks' = [t \in TaskSlots |->
                    IF t \in Range(active_jobs)
                    THEN [tasks[t] EXCEPT !.cancel = TRUE]
                    ELSE tasks[t]]
    /\ stopPc' = "returned"
    /\ UNCHANGED <<storeVars, procUp, crashes, running, semaphore, pollPc, active_jobs,
                   busVars, chatVars>>

(* ------------- a job task: _run_job and pipeline.execute() ------------- *)
taskFrame == <<procUp, crashes, running, semaphore, pollPc, stopPc, active_jobs>>

busRest == <<subscribers, published, delivered, subscribedAt, chatVars>>

\* the task's await returns normally: its cancellation was not requested
Resumes(t) == ~tasks[t].cancel

\* execute(): read the wiki row; Phase 1: status cloning, published
TaskBegin(t) ==
    /\ tasks[t].pc = "start"
    /\ Resumes(t)
    /\ wikis' = UpdateStatus(wikis, tasks[t].wiki_id, "cloning")
    /\ PublishEvent(tasks[t].wiki_id, Event(tasks[t].wiki_id, "status_change", 0))
    /\ tasks' = [tasks EXCEPT ![t].pc = "create_sandbox"]
    /\ UNCHANGED <<jobs, taskFrame, busRest>>

\* Phase 1: sandbox_manager.create_sandbox returned a sandbox
TaskCreateSandbox(t) ==
    /\ tasks[t].pc = "create_sandbox"
    /\ Resumes(t)
    /\ tasks' = [tasks EXCEPT ![t].pc = "metadata", ![t].sandbox = TRUE]
    /\ UNCHANGED <<storeVars, taskFrame, busVars, chatVars>>

\* Phase 1: metadata fetched and saved; Phase 2: status analyzing, published
TaskMetadata(t) ==
    /\ tasks[t].pc = "metadata"
    /\ Resumes(t)
    /\ wikis' = UpdateStatus(wikis, tasks[t].wiki_id, "analyzing")
    /\ PublishEvent(tasks[t].wiki_id, Event(tasks[t].wiki_id, "status_change", 0))
    /\ tasks' = [tasks EXCEPT ![t].pc = "analyze"]
    /\ UNCHANGED <<jobs, taskFrame, busRest>>

\* Phase 2: the analysis returned a plan; page counts (total, 0);
\* Phase 3: status generating, published; write_pages organizes the waves
TaskAnalyze(t) ==
    /\ tasks[t].pc = "analyze"
    /\ Resumes(t)
    /\ \E analysis \in Plans :
          LET total == TotalPages(analysis)
              w     == tasks[t].wiki_id
          IN  /\ wikis' = UpdateStatus(UpdatePageCounts(wikis, w, total, 0),
                                       w, "generating")
              /\ tasks' = [tasks EXCEPT ![t].pc = "generating",
                                        ![t].total_pages = total,
                                        ![t].completed = 0,
                                        ![t].waves = OrganizeWaves(analysis)]
    /\ PublishEvent(tasks[t].wiki_id, Event(tasks[t].wiki_id, "status_change", 0))
    /\ UNCHANGED <<jobs, taskFrame, busRest>>

\* Phase 3: write_pages yields the slug of a page of the current wave (pages of a
\* wave complete in any order); completed += 1, page counts (total, completed),
\* page_complete published
TaskPage(t) ==
    /\ tasks[t].pc = "generating"
    /\ Resumes(t)
    /\ tasks[t].waves # <<>>
    /\ \E i \in DOMAIN Head(tasks[t].waves).pages :
          LET wave == Head(tasks[t].waves)
              rest == RemoveAt(wave.pages, i)
              completed == tasks[t].completed + 1
          IN  /\ wikis' = UpdatePageCounts(wikis, tasks[t].wiki_id,
                                           tasks[t].total_pages, completed)
              /\ tasks' = [tasks EXCEPT
                   ![t].completed = completed,
                   ![t].waves = IF rest = <<>> THEN Tail(tasks[t].waves)
                                ELSE <<[wave EXCEPT !.pages = rest]>>
                                     \o Tail(tasks[t].waves)]
    /\ PublishEvent(tasks[t].wiki_id, Event(tasks[t].wiki_id, "page_complete", 0))
    /\ UNCHANGED <<jobs, taskFrame, busRest>>

\* Phase 3 is over (write_pages is exhausted); Phase 4: status indexing, published
TaskIndexing(t) ==
    /\ tasks[t].pc = "generating"
    /\ Resumes(t)
    /\ tasks[t].waves = <<>>
    /\ wikis' = UpdateStatus(wikis, tasks[t].wiki_id, "indexing")
    /\ PublishEvent(tasks[t].wiki_id, Event(tasks[t].wiki_id, "status_change", 0))
    /\ tasks' = [tasks EXCEPT ![t].pc = "indexing"]
    /\ UNCHANGED <<jobs, taskFrame, busRest>>

\* Phase 4: the manifest; Phase 5: storage, page index, status completed, complete
\* published; the finally destroys the sandbox
TaskCompleted(t) ==
    /\ tasks[t].pc = "indexing"
    /\ Resumes(t)
    /\ wikis' = UpdateStatus(wikis, tasks[t].wiki_id, "completed")
    /\ PublishEvent(tasks[t].wiki_id, Event(tasks[t].wiki_id, "complete", 0))
    /\ tasks' = [tasks EXCEPT ![t].pc = "completed",
                              ![t].sandbox = FinallyDestroy(tasks[t].sandbox)]
    /\ UNCHANGED <<jobs, taskFrame, busRest>>

\* a phase raises: create_sandbox, get_repo_metadata, analyze, write_pages or
\* generate_manifest; inside the try block the finally destroys the sandbox
TaskRaise(t) ==
    /\ tasks[t].pc \in {"create_sandbox"} \cup InSandboxScope
    /\ Resumes(t)
    /\ tasks' = [tasks EXCEPT
                   ![t].pc = "raised",
                   ![t].sandbox = IF tasks[t].pc \in InSandboxScope
                                  THEN FinallyDestroy(tasks[t].sandbox)
                                  ELSE tasks[t].sandbox,
                   ![t].error = ErrorOf(tasks[t].pc)]
    /\ UNCHANGED <<storeVars, taskFrame, busVars, chatVars>>

\* the task receives CancelledError at its await: inside the try block the finally
\* destroys the sandbox; _run_job's except Exception does not catch it
TaskCancelled(t) ==
    /\ tasks[t].pc \notin {"none", "cancelled", "ending"}
    /\ tasks[t].cancel
    /\ tasks' = [tasks EXCEPT
                   ![t].pc = "cancelled",
                   ![t].sandbox = IF tasks[t].pc \in InSandboxScope
                                  THEN FinallyDestroy(tasks[t].sandbox)
                                  ELSE tasks[t].sandbox]
    /\ UNCHANGED <<storeVars, taskFrame, busVars, chatVars>>

\* a finally that does not release the semaphore
RunJobFinallyNoRelease(t) ==
    /\ semaphore' = semaphore
    /\ active_jobs' = DictPop(active_jobs, tasks[t].job)
    /\ tasks' = [tasks EXCEPT ![t] = NoTask]

\* the finally of _run_job: semaphore.release(), active_jobs.pop(job_id)
RunJobFinally(t) ==
    /\ semaphore' = semaphore + 1
    /\ active_jobs' = DictPop(active_jobs, tasks[t].job)
    /\ tasks' = [tasks EXCEPT ![t] = NoTask]

\* execute() returned: _complete_job commits; its connection is still to be closed
TaskFinish(t) ==
    /\ tasks[t].pc = "completed"
    /\ Resumes(t)
    /\ jobs' = CompleteJob(jobs, tasks[t].job)
    /\ tasks' = [tasks EXCEPT ![t].pc = "ending"]
    /\ UNCHANGED <<wikis, taskFrame, busVars, chatVars>>

\* execute() raised: _fail_job with the attempts and max_attempts of the claimed row
\* commits; its connection is still to be closed
TaskFail(t) ==
    /\ tasks[t].pc = "raised"
    /\ Resumes(t)
    /\ LET T == tasks[t]
       IN  /\ jobs' = FailJobRows(jobs, T.job, T.error, T.attempts, T.max_attempts)
           /\ wikis' = FailJobWikis(wikis, jobs, T.job, T.error, T.attempts,
                                    T.max_attempts)
    /\ tasks' = [tasks EXCEPT ![t].pc = "ending"]
    /\ UNCHANGED <<taskFrame, busVars, chatVars>>

\* await db.close() of _complete_job or _fail_job is over, by its return or by the
\* CancelledError it raised: the finally of _run_job
TaskEnd(t) ==
    /\ tasks[t].pc = "ending"
    /\ RunJobFinally(t)
    /\ UNCHANGED <<storeVars, procUp, crashes, running, pollPc, stopPc, busVars, chatVars>>

\* the task was cancelled: the job row is left as it is, then the finally of _run_job
TaskCancelEnd(t) ==
    /\ tasks[t].pc = "cancelled"
    /\ RunJobFinally(t)
    /\ UNCHANGED <<storeVars, procUp, crashes, running, pollPc, stopPc, busVars, chatVars>>

TaskStep(t) ==
    \/ TaskBegin(t)
    \/ TaskCreateSandbox(t)
    \/ TaskMetadata(t)
    \/ TaskAnalyze(t)
    \/ TaskPage(t)
    \/ TaskIndexing(t)
    \/ TaskCompleted(t)
    \/ TaskRaise(t)
    \/ TaskFinish(t)
    \/ TaskFail(t)
    \/ TaskEnd(t)
    \/ TaskCancelled(t)
    \/ TaskCancelEnd(t)

\* the steps of a process that is not being shut down
NextRunning ==
    \/ \E k \in Keys : CreateWiki(k)
    \/ Start
    \/ Crash
    \/ PollAcquire
    \/ PollClaim
    \/ PollEmpty
    \/ PollError
    \/ \E t \in TaskSlots : TaskBegin(t)
    \/ \E t \in TaskSlots : TaskCreateSandbox(t)
    \/ \E t \in TaskSlots : TaskMetadata(t)
    \/ \E t \in TaskSlots : TaskAnalyze(t)
    \/ \E t \in TaskSlots : TaskPage(t)
    \/ \E t \in TaskSlots : TaskIndexing(t)
    \/ \E t \in TaskSlots : TaskCompleted(t)
    \/ \E t \in TaskSlots : TaskRaise(t)
    \/ \E t \in TaskSlots : TaskFinish(t)
    \/ \E t \in TaskSlots : TaskFail(t)
    \/ \E t \in TaskSlots : TaskEnd(t)

\* the steps of the shutdown
NextShutdown ==
    \/ Stop
    \/ PollCancelled
    \/ StopCancelTasks
    \/ Exit
    \/ \E t \in TaskSlots : TaskCancelled(t)
    \/ \E t \in TaskSlots : TaskCancelEnd(t)

Next == NextRunning \/ NextShutdown

Spec == Init /\ [][Next]_vars

\* GET /health: the response, computed from the state it is served in
HealthCheck ==
    [status |-> "ok", version |-> AppVersion,
     active_jobs |-> Cardinality(DOMAIN active_jobs)]

\* the steps of a process that neither dies nor is shut down
NextDefault ==
    \/ \E k \in Keys : CreateWiki(k)
    \/ Start
    \/ PollAcquire
    \/ PollClaim
    \/ PollEmpty
    \/ PollError
    \/ \E t \in TaskSlots : TaskBegin(t)
    \/ \E t \in TaskSlots : TaskCreateSandbox(t)
    \/ \E t \in TaskSlots : TaskMetadata(t)
    \/ \E t \in TaskSlots : TaskAnalyze(t)
    \/ \E t \in TaskSlots : TaskPage(t)
    \/ \E t \in TaskSlots : TaskIndexing(t)
    \/ \E t \in TaskSlots : TaskCompleted(t)
    \/ \E t \in TaskSlots : TaskRaise(t)
    \/ \E t \in TaskSlots : TaskFinish(t)
    \/ \E t \in TaskSlots : TaskFail(t)
    \/ \E t \in TaskSlots : TaskEnd(t)

\* the orchestrator with the default of max_concurrent_jobs
SpecDefault == InitDefault /\ [][NextDefault]_vars

\* one _dequeue_next of the poll loop
NextClaim == PollClaim \/ PollEmpty

SpecClaim == InitClaim /\ [][NextClaim]_vars

\* a process that starts on the tables earlier processes left and serves
\* create_wiki requests
NextCreate ==
    \/ Start
    \/ \E k \in Keys : CreateWikiAgain(k)

SpecCreate == InitCreate /\ [][NextCreate]_vars

(* ---------------------- the event bus, on its own ---------------------- *)
busFrame == <<storeVars, orchVars, chatVars>>

\* EventBus.publish(wiki_id, event); the publish calls are numbered per id and
\* recorded in published
Publish(id, type) ==
    /\ SumSeq([i \in BusIds |-> Len(published[i])]) < MaxPublish
    /\ LET event == Event(id, type, Len(published[id]) + 1)
       IN  /\ PublishEvent(id, event)
           /\ published' = [published EXCEPT ![id] = Append(@, event)]
    /\ UNCHANGED <<subscribers, delivered, subscribedAt, busFrame>>

\* EventBus.subscribe(wiki_id): a fresh queue, registered
Subscribe(id) ==
    /\ Len(queues) < MaxQueues
    /\ LET q == Len(queues) + 1
       IN  /\ queues' = Append(queues, <<>>)
           /\ subscribers' = AddSubscriber(subscribers, id, q)
           /\ delivered' = Append(delivered, <<>>)
           /\ subscribedAt' = Append(subscribedAt,
                                     [id |-> id, at |-> Len(published[id])])
    /\ UNCHANGED <<emitted, published, busFrame>>

\* EventBus.unsubscribe(wiki_id, queue)
Unsubscribe(id, q) ==
    /\ subscribers' = RemoveSubscriber(subscribers, id, q)
    /\ UNCHANGED <<queues, emitted, published, delivered, subscribedAt, busFrame>>

\* the consumer of a queue: event = await queue.get()
Get(q) ==
    /\ queues[q] # <<>>
    /\ delivered' = [delivered EXCEPT ![q] = Append(@, Head(queues[q]))]
    /\ queues' = [queues EXCEPT ![q] = Tail(@)]
    /\ UNCHANGED <<subscribers, emitted, published, subscribedAt, busFrame>>

NextBus ==
    \/ \E id \in BusIds, type \in EventTypes : Publish(id, type)
    \/ \E id \in BusIds : Subscribe(id)
    \/ \E id \in BusIds, q \in QueueIds : Unsubscribe(id, q)
    \/ \E q \in QueueIds : Get(q)

SpecBus == Init /\ [][NextBus]_vars

(* ------------- the wiki event stream: routers/wikis.py ----------------- *)
streamFrame == <<storeVars, orchVars, agentVars, ingestVars, toolVars, pipelineVars>>

\* a stream that goes on after an error event
IsTerminalCompleteOnly(type) == type = "complete"

\* event_generator: if event["type"] in ("complete", "error"): break
IsTerminal(type) == type \in {"complete", "error"}

\* GET /wikis/{wiki_id}/events: the generator is started, subscribes and waits in
\* queue.get()
WikiEvents(id) ==
    /\ Len(queues) < MaxQueues
    /\ LET q == Len(queues) + 1
       IN  /\ queues' = Append(queues, <<>>)
           /\ subscribers' = AddSubscriber(subscribers, id, q)
           /\ delivered' = Append(delivered, <<>>)
           /\ subscribedAt' = Append(subscribedAt,
                                     [id |-> id, at |-> Len(published[id])])
           /\ streams' = Append(streams, "waiting")
    /\ UNCHANGED <<emitted, published, streamFrame>>

\* event_generator: event = await queue.get(); yield it
EventGeneratorYield(q) ==
    /\ streams[q] = "waiting"
    /\ queues[q] # <<>>
    /\ delivered' = [delivered EXCEPT ![q] = Append(@, Head(queues[q]))]
    /\ queues' = [queues EXCEPT ![q] = Tail(@)]
    /\ streams' = [streams EXCEPT ![q] = "yielded"]
    /\ UNCHANGED <<subscribers, emitted, published, subscribedAt, streamFrame>>

\* event_generator is resumed after its yield: break on complete or error, and the
\* finally unsubscribes; else the next queue.get()
EventGeneratorResume(q) ==
    /\ streams[q] = "yielded"
    /\ LET event == delivered[q][Len(delivered[q])]
       IN  IF IsTerminal(event.type)
           THEN /\ subscribers' = RemoveSubscriber(subscribers, subscribedAt[q].id, q)
                /\ streams' = [streams EXCEPT ![q] = "ended"]
           ELSE /\ streams' = [streams EXCEPT ![q] = "waiting"]
                /\ UNCHANGED subscribers
    /\ UNCHANGED <<queues, emitted, published, delivered, subscribedAt, streamFrame>>

\* the client disconnects: the generator is closed in queue.get() or at its yield,
\* and the finally unsubscribes
EventGeneratorClose(q) ==
    /\ streams[q] \in {"waiting", "yielded"}
    /\ subscribers' = RemoveSubscriber(subscribers, subscribedAt[q].id, q)
    /\ streams' = [streams EXCEPT ![q] = "ended"]
    /\ UNCHANGED <<queues, emitted, published, delivered, subscribedAt, streamFrame>>

NextEvents ==
    \/ \E id \in BusIds, type \in EventTypes : Publish(id, type)
    \/ \E id \in BusIds : WikiEvents(id)
    \/ \E q \in QueueIds : EventGeneratorYield(q)
    \/ \E q \in QueueIds : EventGeneratorResume(q)
    \/ \E q \in QueueIds : EventGeneratorClose(q)

SpecEvents == Init /\ [][NextEvents]_vars

(* ------------------------ the tools, on their own ---------------------- *)
toolFrame == <<wikiVars, agentVars, ingestVars, pipelineVars, streamVars>>

\* the agent calls list_files(path)
ListFiles(arg) ==
    /\ result' = [tool |-> "list_files", path |-> arg, start_line |-> None,
                  end_line |-> None, glob |-> <<>>, lines |-> ListFilesLines(files, arg)]
    /\ UNCHANGED <<files, toolFrame>>

\* the agent calls read_file(path, start_line, end_line)
ReadFile(arg, start_line, end_line) ==
    /\ result' = [tool |-> "read_file", path |-> arg, start_line |-> start_line,
                  end_line |-> end_line, glob |-> <<>>,
                  lines |-> ReadFileLines(files, arg, start_line, end_line)]
    /\ UNCHANGED <<files, toolFrame>>

\* the agent calls search_code(pattern, glob)
SearchCode(pattern, glob) ==
    /\ result' = [tool |-> "search_code", path |-> pattern, start_line |-> None,
                  end_line |-> None, glob |-> glob,
                  lines |-> SearchCodeLines(files, pattern, glob)]
    /\ UNCHANGED <<files, toolFrame>>

NextSearch == \E pattern \in Patterns : \E glob \in Globs : SearchCode(pattern, glob)

SpecSearch == InitSearch /\ [][NextSearch]_vars

NextList == \E arg \in ListArgs : ListFiles(arg)

SpecList == InitList /\ [][NextList]_vars

\* the arguments read_file is called with
ReadArgs == {[path |-> ReadName, start_line |-> None, end_line |-> None]}

NextRead == \E a \in ReadArgs : ReadFile(a.path, a.start_line, a.end_line)

SpecRead == InitRead /\ [][NextRead]_vars

\* a repo of one file has been ingested; no tool call yet
InitSlice ==
    /\ InitWiki /\ InitChat /\ InitIngest /\ InitPipeline
    /\ files \in {<<FileRow(<<ReadName>>, content)>> : content \in SliceContents}
    /\ result = NoResult

\* the bounds read_file is called with: none, 0, beyond the file on either side
StartLines == {None} \cup {Some(n) : n \in (-(MaxSliceLines + 1))..(MaxSliceLines + 1)}
EndLines == {None} \cup {Some(n) : n \in 0..(MaxSliceLines + 1)}

NextSlice ==
    \E start_line \in StartLines, end_line \in EndLines :
        ReadFile(ReadName, start_line, end_line)

SpecSlice == InitSlice /\ [][NextSlice]_vars

\* the entries of a cloned tree with dot files, in path order: none of them is in
\* SKIP_DIRS, SKIP_FILENAMES or SKIP_EXTENSIONS
DotTreeEntries ==
    << [segments |-> << <<".", "github">> >>, dir |-> TRUE],
       [segments |-> << <<".", "github">>, <<"workflows">> >>, dir |-> TRUE],
       [segments |-> << <<".", "github">>, <<"workflows">>, <<"ci", ".", "yml">> >>,
        dir |-> FALSE],
       [segments |-> << <<".", "gitignore">> >>, dir |-> FALSE],
       [segments |-> << <<"README">> >>, dir |-> FALSE],
       [segments |-> << <<"src">> >>, dir |-> TRUE],
       [segments |-> << <<"src">>, <<"app", ".", "py">> >>, dir |-> FALSE] >>

\* the trees with dot files: sets of entries that hold the directory of each of
\* their entries
DotTrees ==
    {tree \in SUBSET Range(DotTreeEntries) :
        \A e \in tree :
            Len(e.segments) > 1 =>
                [segments |-> SubSeq(e.segments, 1, Len(e.segments) - 1), dir |-> TRUE]
                    \in tree}

\* _collect_file_records on a tree with dot files: rel_path_str = str(rel_path) is
\* the stored path; the content of each file is one line that holds its path
CollectDotRecords(tree) ==
    LET Kept(e) == e \in tree /\ (e.dir \/ GetExtension(e.segments[Len(e.segments)])
                                              \notin SkipExtensions)
        kept == SelectSeq(DotTreeEntries, Kept)
    IN  [i \in DOMAIN kept |->
            IF kept[i].dir THEN DirRow(kept[i].segments)
            ELSE FileRow(kept[i].segments, <<JoinPath(kept[i].segments)>>)]

\* a repo with dot files has been ingested; no tool call yet
InitPaths ==
    /\ InitWiki /\ InitChat /\ InitIngest /\ InitPipeline
    /\ files \in {CollectDotRecords(tree) : tree \in DotTrees}
    /\ result = NoResult

\* the ways a stored path p is given to read_file: p, "./" + p and p + "/"
Spellings(p) == {p, <<".", "/">> \o p, p \o <<"/">>}

\* the agent reads a file of the repo by its stored path, in one of the spellings
NextPaths ==
    \E i \in DOMAIN files :
        /\ ~files[i].is_directory
        /\ \E arg \in Spellings(files[i].path) : ReadFile(arg, None, None)

SpecPaths == InitPaths /\ [][NextPaths]_vars

(* --------------------- repo ingestion, on its own ---------------------- *)
ingestFrame == <<wikiVars, agentVars, toolVars, pipelineVars, streamVars>>

\* ingest_repo(conn, url), step 1: the dedup check; an existing row for the url is
\* answered with already_exists whatever its status
IngestSelect(c, url) ==
    /\ ingests[c].pc \in {"idle", "returned", "raised"}
    /\ LET existing == RepoWithUrl(url)
       IN  ingests' = [ingests EXCEPT ![c] =
                       IF existing # 0
                       THEN [NoCall EXCEPT !.pc = "returned", !.url = url,
                                           !.repo = existing,
                                           !.answer = "already_exists"]
                       ELSE [NoCall EXCEPT !.pc = "insert", !.url = url]]
    /\ UNCHANGED <<repos, loaded, ingestFrame>>

\* step 2: INSERT INTO repos ... 'ingesting'; a row for the url inserted meanwhile
\* makes the insert raise (url is UNIQUE), before the try block
IngestInsert(c) ==
    /\ ingests[c].pc = "insert"
    /\ IF RepoWithUrl(ingests[c].url) # 0
       THEN /\ ingests' = [ingests EXCEPT ![c].pc = "raised",
                                      ![c].answer = "UniqueViolationError"]
            /\ UNCHANGED repos
       ELSE /\ repos' = Append(repos, [url |-> ingests[c].url, status |-> "ingesting"])
            /\ ingests' = [ingests EXCEPT ![c].pc = "clone", ![c].repo = Len(repos) + 1]
    /\ UNCHANGED <<loaded, ingestFrame>>

\* step 3: the temporary directory, git clone succeeded
IngestClone(c) ==
    /\ ingests[c].pc = "clone"
    /\ ingests' = [ingests EXCEPT ![c].pc = "walk", ![c].tmpdir = TRUE]
    /\ UNCHANGED <<repos, loaded, ingestFrame>>

\* steps 4-8: the walk and the bulk load succeeded; the with block ends and removes
\* the temporary directory (a walk without records loads nothing)
IngestLoad(c) ==
    /\ ingests[c].pc = "walk"
    /\ loaded' = loaded \cup {ingests[c].repo}
    /\ ingests' = [ingests EXCEPT ![c].pc = "ready", ![c].tmpdir = FALSE]
    /\ UNCHANGED <<repos, ingestFrame>>

\* step 9: UPDATE repos SET status = 'ready'; return
IngestReady(c) ==
    /\ ingests[c].pc = "ready"
    /\ repos' = [repos EXCEPT ![ingests[c].repo].status = "ready"]
    /\ ingests' = [ingests EXCEPT ![c].pc = "returned", ![c].answer = "ready"]
    /\ UNCHANGED <<loaded, ingestFrame>>

\* git clone failed, or the walk or the bulk load raised: the with block removes the
\* temporary directory, the handler sets the status and re-raises
IngestFails(c) ==
    /\ ingests[c].pc \in {"clone", "walk"}
    /\ repos' = [repos EXCEPT ![ingests[c].repo].status = StatusOnFailure(@)]
    /\ ingests' = [ingests EXCEPT ![c].pc = "raised", ![c].tmpdir = FALSE,
                              ![c].answer = IF ingests[c].pc = "clone"
                                            THEN "RuntimeError" ELSE "Exception"]
    /\ UNCHANGED <<loaded, ingestFrame>>

NextIngest ==
    \/ \E c \in IngestSlots, url \in Urls : IngestSelect(c, url)
    \/ \E c \in IngestSlots : IngestInsert(c)
    \/ \E c \in IngestSlots : IngestClone(c)
    \/ \E c \in IngestSlots : IngestLoad(c)
    \/ \E c \in IngestSlots : IngestReady(c)
    \/ \E c \in IngestSlots : IngestFails(c)

SpecIngest == Init /\ [][NextIngest]_vars

(* ------------------ the chat agent, on its own ------------------------- *)
chatFrame == <<wikiVars, ingestVars, toolVars, pipelineVars, streamVars>>

\* the assistant message of a turn: the ids of its tool calls, in index order
AssistantMessage(ids) == [role |-> "assistant", tool_calls |-> ids, content |-> NULL]

\* a tool message keyed to no call of the turn
ToolMessageUnkeyed(id, text) == [role |-> "tool", tool_call_id |-> <<0, 0>>, content |-> text]

\* the tool message of a call
ToolMessage(id, text) == [role |-> "tool", tool_call_id |-> id, content |-> text]

\* one iteration up to the end of the stream: the model call, the chunks (text is
\* sent on as text_delta), then either the assistant message of the accumulated tool
\* calls or done; raises: the call or the stream raises (after the text, if any)
AgentModelTurn(text, calls, raises) ==
    /\ agent.pc = "call"
    /\ WithinCap(agent.iteration)
    /\ LET n      == agent.iteration + 1
           deltas == IF text THEN <<ChatEvent("text_delta", "model")>> ELSE <<>>
           ids    == [i \in DOMAIN calls |-> <<n, i>>]
       IN  IF raises
           THEN /\ agent' = [agent EXCEPT !.iteration = n, !.pc = "raised",
                                          !.turn = <<>>, !.error = "APIError"]
                /\ sse' = EmitAll(sse, deltas)
           ELSE IF calls # <<>>
           THEN /\ agent' = [agent EXCEPT
                               !.iteration = n, !.pc = "tools",
                               !.toolTurns = @ + 1,
                               !.pending = [i \in DOMAIN calls |->
                                              [id |-> ids[i], call |-> calls[i]]],
                               !.turn = <<AssistantMessage(ids)>>,
                               !.nmessages = @ + 1]
                /\ sse' = EmitAll(sse, deltas)
           ELSE /\ agent' = [agent EXCEPT !.iteration = n, !.pc = "returned",
                                          !.turn = <<>>]
                /\ sse' = EmitAll(sse, deltas \o <<ChatEvent("done", NULL)>>)
    /\ UNCHANGED chatFrame

\* the next tool call of the turn: parse its arguments, tool_start, execute_tool,
\* tool_end, the tool message; an exception of execute_tool leaves run_agent
AgentDispatch ==
    /\ agent.pc = "tools"
    /\ LET p      == Head(agent.pending)
           keys   == JsonLoads(p.call.arguments_str)
           returned == ExecuteTool(p.call.name, keys, p.call.fails)
           rest   == Tail(agent.pending)
       IN  IF returned.raised
           THEN /\ agent' = [agent EXCEPT !.pc = "raised", !.error = returned.text]
                /\ sse' = Emit(sse, ChatEvent("tool_start", p.call.name))
           ELSE /\ agent' = [agent EXCEPT
                               !.pc = IF rest = <<>> THEN "call" ELSE "tools",
                               !.pending = rest,
                               !.turn = Append(@, ToolMessage(p.id, returned.text)),
                               !.nmessages = @ + 1]
                /\ sse' = EmitAll(sse, <<ChatEvent("tool_start", p.call.name),
                                         ChatEvent("tool_end", p.call.name)>>)
    /\ UNCHANGED chatFrame

\* the loop is exhausted: the closing text_delta, then done
AgentCap ==
    /\ agent.pc = "call"
    /\ ~WithinCap(agent.iteration)
    /\ agent' = [agent EXCEPT !.pc = "returned"]
    /\ sse' = EmitAll(sse, <<ChatEvent("text_delta", "cap"), ChatEvent("done", NULL)>>)
    /\ UNCHANGED chatFrame

\* chat.event_stream: run_agent raised; the error event, then the stream ends
StreamError ==
    /\ agent.pc = "raised"
    /\ agent' = [agent EXCEPT !.pc = "ended"]
    /\ sse' = OnException(sse, agent.error)
    /\ UNCHANGED chatFrame

\* chat.event_stream: run_agent is exhausted; the stream ends
StreamEnd ==
    /\ agent.pc = "returned"
    /\ agent' = [agent EXCEPT !.pc = "ended"]
    /\ UNCHANGED <<sse, chatFrame>>

NextAgent ==
    \/ \E text \in BOOLEAN, calls \in TurnCalls, raises \in BOOLEAN :
          AgentModelTurn(text, calls, raises)
    \/ AgentDispatch
    \/ AgentCap
    \/ StreamError
    \/ StreamEnd

SpecAgent == Init /\ [][NextAgent]_vars

(* ------------------- scheduling of the event loop ---------------------- *)
\* A restarted process runs start(); the poll loop and every task that can take a
\* step eventually take it; a claim that is possible again and again eventually
\* succeeds (dequeue errors are transient). Crashes are not forced, and the process
\* is not shut down.
FairSpec ==
    /\ Init /\ [][NextRunning]_vars
    /\ WF_vars(Start)
    /\ WF_vars(PollAcquire)
    /\ SF_vars(PollClaim)
    /\ \A t \in TaskSlots : WF_vars(TaskStep(t))

\* the steps of a task that is not cancelled
ExecutionStep(t) ==
    \/ TaskBegin(t)
    \/ TaskCreateSandbox(t)
    \/ TaskMetadata(t)
    \/ TaskAnalyze(t)
    \/ TaskPage(t)
    \/ TaskIndexing(t)
    \/ TaskCompleted(t)
    \/ TaskRaise(t)
    \/ TaskFinish(t)
    \/ TaskFail(t)
    \/ TaskEnd(t)

\* The process neither dies nor is shut down; start() runs, the poll loop and every
\* task that can take a step eventually take it (every pipeline execution
\* terminates, by returning or by raising), and a claim that is possible again and
\* again eventually succeeds.
FairRunningSpec ==
    /\ Init /\ [][NextDefault]_vars
    /\ WF_vars(Start)
    /\ WF_vars(PollAcquire)
    /\ SF_vars(PollClaim)
    /\ \A t \in TaskSlots : WF_vars(ExecutionStep(t))

\* the steps of a task whose pipeline execution does not return: it raises in one
\* of its phases
RaisingStep(t) ==
    \/ TaskBegin(t)
    \/ TaskCreateSandbox(t)
    \/ TaskMetadata(t)
    \/ TaskAnalyze(t)
    \/ TaskPage(t)
    \/ TaskIndexing(t)
    \/ TaskRaise(t)
    \/ TaskFail(t)
    \/ TaskEnd(t)

\* the steps of a process that neither dies nor is shut down and in which no
\* pipeline execution returns
NextRaising ==
    \/ \E k \in Keys : CreateWiki(k)
    \/ Start
    \/ PollAcquire
    \/ PollClaim
    \/ PollEmpty
    \/ PollError
    \/ \E t \in TaskSlots : RaisingStep(t)

\* every pipeline execution raises; scheduling as in FairSpec
FairRaisingSpec ==
    /\ Init /\ [][NextRaising]_vars
    /\ WF_vars(Start)
    /\ WF_vars(PollAcquire)
    /\ SF_vars(PollClaim)
    /\ \A t \in TaskSlots : WF_vars(RaisingStep(t))

(* ------ one pipeline execution, await by await: orchestrator.py, writer.py ------ *)
pipelineRest == <<jobs, orchVars, subscribers, published, delivered, subscribedAt,
                  agentVars, ingestVars, toolVars, streamVars, deletion>>

pipelineFrame == <<pipelineRest, storage>>

\* the plans of an execution followed step by step: up to MaxPlanSections sections
\* of 1..MaxSectionPages pages
ExecutePlans ==
    {PlanOf(shape) :
        shape \in UNION {[1..n -> [id : SectionIds, n : 1..MaxSectionPages]] :
                            n \in 0..MaxPlanSections}}

\* a pipeline that writes indexing before generating
StatusOfSwapped(phase) ==
    CASE phase = 1 -> "cloning"
      [] phase = 2 -> "analyzing"
      [] phase = 3 -> "indexing"
      [] phase = 4 -> "generating"
      [] phase = 5 -> "completed"

\* execute(): the status its i-th _update_status call writes
StatusOf(phase) ==
    CASE phase = 1 -> "cloning"
      [] phase = 2 -> "analyzing"
      [] phase = 3 -> "generating"
      [] phase = 4 -> "indexing"
      [] phase = 5 -> "completed"

\* execute(): what follows the publish call of a phase
WorkOf(phase) ==
    CASE phase = 1 -> "create_sandbox"
      [] phase = 2 -> "analyze"
      [] phase = 3 -> "write_pages"
      [] phase = 4 -> "manifest"
      [] phase = 5 -> "destroy"

\* execute(): the event published after the status write
StatusEvent(status) ==
    [type |-> IF status = "completed" THEN "complete" ELSE "status_change",
     status |-> status]

\* the pages of the waves, as a set
WavePages(waves) == UNION {Range(waves[i].pages) : i \in DOMAIN waves}

\* a wave is over as soon as one of its pages was yielded
WaveOverEarly(pages, yielded) == \E i \in DOMAIN pages : pages[i].slug \in Range(yielded)

\* write_pages: for task in asyncio.as_completed(tasks) is exhausted when every task
\* of the wave was awaited
WaveOver(pages, yielded) == \A i \in DOMAIN pages : pages[i].slug \in Range(yielded)

\* execute() is called for the wiki of a running job; the wikis table holds the row in
\* the status an earlier execution left, or not at all
InitExecute ==
    /\ \/ \E status \in WikiStatus : wikis = <<LeftWiki(1, status)>>
       \/ wikis = <<>>
    /\ jobs = <<LeftJob(1, "cloning")>>
    /\ InitOrchestrator(MaxConcurrentJobs)
    /\ InitBus
    /\ InitChat /\ InitIngest /\ InitTools
    /\ streams = <<>>
    /\ storage \in SUBSET DOMAIN wikis
    /\ deletion = NoDelete
    /\ pipeline = [NoPipeline EXCEPT !.pc = "start", !.wiki_id = 1,
                                     !.codex = CodexMaxConcurrent]

\* execute(): SELECT * FROM wikis WHERE id = ?; ValueError when there is no row
ExecuteSelect ==
    /\ pipeline.pc = "start"
    /\ pipeline' = IF pipeline.wiki_id \in DOMAIN wikis
                   THEN [pipeline EXCEPT !.pc = "update_status", !.phase = 1]
                   ELSE [pipeline EXCEPT !.pc = "raised", !.raised = TRUE]
    /\ UNCHANGED <<wikis, queues, emitted, pipelineFrame>>

\* await self._update_status(...): the UPDATE and its commit
ExecuteUpdateStatus ==
    /\ pipeline.pc = "update_status"
    /\ LET status == StatusOf(pipeline.phase)
       IN  /\ wikis' = UpdateStatus(wikis, pipeline.wiki_id, status)
           /\ pipeline' = [pipeline EXCEPT !.pc = "publish",
                                           !.writes = Append(@, status)]
    /\ UNCHANGED <<queues, emitted, pipelineFrame>>

\* await event_bus.publish(...) after a status write: status_change, or complete
\* after completed; then the work of the phase is called
ExecutePublish ==
    /\ pipeline.pc = "publish"
    /\ LET event == StatusEvent(StatusOf(pipeline.phase))
       IN  /\ PublishEvent(pipeline.wiki_id, Event(pipeline.wiki_id, event.type, 0))
           /\ pipeline' = [pipeline EXCEPT !.pc = WorkOf(pipeline.phase),
                                           !.events = Append(@, event)]
    /\ UNCHANGED <<wikis, pipelineFrame>>

\* Phase 1: create_sandbox returns a sandbox; the try block is entered
ExecuteCreateSandbox ==
    /\ pipeline.pc = "create_sandbox"
    /\ pipeline' = [pipeline EXCEPT !.pc = "metadata", !.sandbox = TRUE,
                                    !.finished = @ \cup {"create_sandbox"}]
    /\ UNCHANGED <<wikis, queues, emitted, pipelineFrame>>

\* Phase 1: get_repo_metadata and _update_commit_info return
ExecuteMetadata ==
    /\ pipeline.pc = "metadata"
    /\ pipeline' = [pipeline EXCEPT !.pc = "update_status", !.phase = 2]
    /\ UNCHANGED <<wikis, queues, emitted, pipelineFrame>>

\* Phase 2: analyze returns a plan; _save_analysis; _update_page_counts(total, 0)
ExecuteAnalyze ==
    /\ pipeline.pc = "analyze"
    /\ \E analysis \in ExecutePlans :
          /\ wikis' = UpdatePageCounts(wikis, pipeline.wiki_id, TotalPages(analysis), 0)
          /\ pipeline' = [pipeline EXCEPT !.pc = "update_status", !.phase = 3,
                                          !.analysis = analysis,
                                          !.total_pages = TotalPages(analysis),
                                          !.finished = @ \cup {"analyze"}]
    /\ UNCHANGED <<queues, emitted, pipelineFrame>>

\* Phase 3: the async for asks write_pages for its first slug: AGENTS.md is written,
\* the waves are organized
WritePages ==
    /\ pipeline.pc = "write_pages"
    /\ LET waves == OrganizeWaves(pipeline.analysis)
       IN  pipeline' = [pipeline EXCEPT
                           !.pc = "wave",
                           !.waves = waves,
                           !.page = [p \in WavePages(waves) |-> "none"]]
    /\ UNCHANGED <<wikis, queues, emitted, pipelineFrame>>

\* write_pages, for wave_name, pages in waves: a task per page of the wave; when no
\* wave is left the generator is exhausted and Phase 4 begins
WaveBegin ==
    /\ pipeline.pc = "wave"
    /\ pipeline' =
         IF pipeline.waves = <<>>
         THEN [pipeline EXCEPT !.pc = "update_status", !.phase = 4,
                               !.finished = @ \cup {"write_pages"}]
         ELSE [pipeline EXCEPT
                 !.pc = "as_completed",
                 !.page = [p \in DOMAIN pipeline.page |->
                             IF p \in Range(Head(pipeline.waves).pages)
                             THEN "created" ELSE pipeline.page[p]]]
    /\ UNCHANGED <<wikis, queues, emitted, pipelineFrame>>

\* a generate_page that calls run_codex without waiting for the semaphore
GeneratePageUnbounded(p) ==
    /\ p \in DOMAIN pipeline.page
    /\ pipeline.page[p] = "created"
    /\ pipeline' = [pipeline EXCEPT !.page[p] = "running", !.codex = @ - 1]
    /\ UNCHANGED <<wikis, queues, emitted, pipelineFrame>>

\* generate_page: async with semaphore is entered, run_codex is called
GeneratePageAcquire(p) ==
    /\ p \in DOMAIN pipeline.page
    /\ pipeline.page[p] = "created"
    /\ pipeline.codex > 0
    /\ pipeline' = [pipeline EXCEPT !.page[p] = "running", !.codex = @ - 1]
    /\ UNCHANGED <<wikis, queues, emitted, pipelineFrame>>

\* generate_page: run_codex returns, with any exit code; the task returns the slug
GeneratePageReturn(p) ==
    /\ p \in DOMAIN pipeline.page
    /\ pipeline.page[p] = "running"
    /\ pipeline' = [pipeline EXCEPT !.page[p] = "completed", !.codex = @ + 1,
                                    !.done = Append(@, p)]
    /\ UNCHANGED <<wikis, queues, emitted, pipelineFrame>>

\* generate_page: run_codex raises (Codex CLI not found); the task ends by it
GeneratePageRaise(p) ==
    /\ p \in DOMAIN pipeline.page
    /\ pipeline.page[p] = "running"
    /\ pipeline' = [pipeline EXCEPT !.page[p] = "raised", !.codex = @ + 1,
                                    !.done = Append(@, p)]
    /\ UNCHANGED <<wikis, queues, emitted, pipelineFrame>>

\* write_pages: slug = await task for the next task to end, yield slug; the body of
\* the async for: completed += 1, _update_page_counts, page_complete published; then
\* the generator is resumed and the wave goes on or is over
WritePagesYield ==
    /\ pipeline.pc = "as_completed"
    /\ pipeline.done # <<>>
    /\ pipeline.page[Head(pipeline.done)] = "completed"
    /\ LET p == Head(pipeline.done)
           yielded == Append(pipeline.yielded, p.slug)
           over == WaveOver(Head(pipeline.waves).pages, yielded)
       IN  /\ wikis' = UpdatePageCounts(wikis, pipeline.wiki_id, pipeline.total_pages,
                                        pipeline.completed + 1)
           /\ PublishEvent(pipeline.wiki_id, Event(pipeline.wiki_id, "page_complete", 0))
           /\ pipeline' = [pipeline EXCEPT
                             !.done = Tail(@),
                             !.yielded = yielded,
                             !.completed = @ + 1,
                             !.events = Append(@, [type |-> "page_complete",
                                                   status |-> NULL]),
                             !.pc = IF over THEN "wave" ELSE "as_completed",
                             !.waves = IF over THEN Tail(@) ELSE @]
    /\ UNCHANGED pipelineFrame

\* write_pages: await task raises the exception of the task; the tasks of the wave
\* that have not ended go on
WritePagesRaise ==
    /\ pipeline.pc = "as_completed"
    /\ pipeline.done # <<>>
    /\ pipeline.page[Head(pipeline.done)] = "raised"
    /\ pipeline' = [pipeline EXCEPT !.done = Tail(@), !.pc = "destroy", !.raised = TRUE]
    /\ UNCHANGED <<wikis, queues, emitted, pipelineFrame>>

\* Phase 4: generate_manifest returns; Phase 5: storage_dir.mkdir for the
\* storage_path of the row read at the start, the copy and the page index
ExecuteManifest ==
    /\ pipeline.pc = "manifest"
    /\ pipeline' = [pipeline EXCEPT !.pc = "update_status", !.phase = 5,
                                    !.finished = @ \cup {"manifest"}]
    /\ storage' = storage \cup {pipeline.wiki_id}
    /\ UNCHANGED <<wikis, queues, emitted, pipelineRest>>

\* create_sandbox raises before the try block; get_repo_metadata, analyze or
\* generate_manifest raises inside it
ExecuteRaise ==
    /\ pipeline.pc \in {"create_sandbox", "metadata", "analyze", "manifest"}
    /\ pipeline' = [pipeline EXCEPT
                      !.pc = IF pipeline.pc = "create_sandbox" THEN "raised"
                             ELSE "destroy",
                      !.raised = TRUE]
    /\ UNCHANGED <<wikis, queues, emitted, pipelineFrame>>

\* finally: destroy_sandbox; execute() returns, or the exception goes on
ExecuteDestroy ==
    /\ pipeline.pc = "destroy"
    /\ pipeline' = [pipeline EXCEPT
                      !.sandbox = FinallyDestroy(pipeline.sandbox),
                      !.pc = IF pipeline.raised THEN "raised" ELSE "returned"]
    /\ UNCHANGED <<wikis, queues, emitted, pipelineFrame>>

\* DELETE FROM wikis WHERE id = ?
DeleteRow(ws, w) == [i \in DOMAIN ws \ {w} |-> ws[i]]

deleteFrame == <<jobs, orchVars, busVars, agentVars, ingestVars, toolVars, streamVars,
                 pipeline>>

\* delete_wiki(wiki_id): SELECT storage_path FROM wikis WHERE id = ?
DeleteWikiSelect(w) ==
    /\ deletion.pc = "none"
    /\ deletion' = [pc |-> "rmtree", wiki_id |-> w, row |-> w \in DOMAIN wikis]
    /\ UNCHANGED <<wikis, storage, deleteFrame>>

\* delete_wiki: shutil.rmtree of the directory if the row was found and it exists;
\* the DELETE is executed
DeleteWikiRmtree ==
    /\ deletion.pc = "rmtree"
    /\ storage' = IF deletion.row THEN storage \ {deletion.wiki_id} ELSE storage
    /\ deletion' = [deletion EXCEPT !.pc = "commit"]
    /\ UNCHANGED <<wikis, deleteFrame>>

\* delete_wiki: the commit of the DELETE; the call returns
DeleteWikiCommit ==
    /\ deletion.pc = "commit"
    /\ wikis' = DeleteRow(wikis, deletion.wiki_id)
    /\ deletion' = [deletion EXCEPT !.pc = "returned"]
    /\ UNCHANGED <<storage, deleteFrame>>

NextExecute ==
    \/ ExecuteSelect
    \/ ExecuteUpdateStatus
    \/ ExecutePublish
    \/ ExecuteCreateSandbox
    \/ ExecuteMetadata
    \/ ExecuteAnalyze
    \/ WritePages
    \/ WaveBegin
    \/ \E p \in DOMAIN pipeline.page : GeneratePageAcquire(p)
    \/ \E p \in DOMAIN pipeline.page : GeneratePageReturn(p)
    \/ \E p \in DOMAIN pipeline.page : GeneratePageRaise(p)
    \/ WritePagesYield
    \/ WritePagesRaise
    \/ ExecuteManifest
    \/ ExecuteRaise
    \/ ExecuteDestroy

SpecExecute == InitExecute /\ [][NextExecute]_vars

\* a pipeline execution and a delete_wiki call for its wiki
NextDelete ==
    \/ NextExecute
    \/ DeleteWikiSelect(1)
    \/ DeleteWikiRmtree
    \/ DeleteWikiCommit

SpecDelete == InitExecute /\ [][NextDelete]_vars

(* ------------------------------ claims --------------------------------- *)
\* the jobs held by the tasks that have not committed their job's outcome
C1_HeldJobs ==
    /\ \A t \in Executing : jobs[tasks[t].job].status = "running"
    /\ \A t1, t2 \in Executing : t1 # t2 => tasks[t1].job # tasks[t2].job

\* a step that spawns a task, and a step that sets a job running
C1_ClaimStep ==
    /\ \A t \in TaskSlots :
          (tasks[t].pc = "none" /\ tasks'[t].pc # "none") =>
             LET j == tasks'[t].job
             IN  /\ jobs[j].status = "queued"
                 /\ jobs'[j].status = "running"
                 /\ \A k \in JobIds \ {j} : jobs'[k] = jobs[k]
                 /\ \A u \in TaskSlots \ {t} : tasks'[u] = tasks[u]
                 /\ \A u \in Executing : tasks[u].job # j
    /\ \A j \in JobIds :
          (jobs[j].status # "running" /\ jobs'[j].status = "running") =>
             /\ jobs[j].status = "queued"
             /\ \A k \in JobIds \ {j} : jobs'[k] = jobs[k]
             /\ \A t \in TaskSlots :
                   (tasks[t].pc = "none" /\ tasks'[t].pc # "none") => tasks'[t].job = j

C2_BoundedTasks == Cardinality(InFlight) <= MaxConcurrentJobs

\* C2 witness: every slot is taken while a claimable job waits and the poll loop is
\* at its acquire.
C2_Witness ==
    /\ Cardinality(InFlight) = MaxConcurrentJobs
    /\ pollPc = "acquire"
    /\ \E j \in JobIds : jobs[j].status = "queued" /\ jobs[j].attempts < jobs[j].max_attempts

\* the bound on attempts
C3_AttemptsInv == \A j \in JobIds : jobs[j].attempts <= jobs[j].max_attempts

\* no step lowers attempts
C3_AttemptsStep == \A j \in JobIds : jobs'[j].attempts >= jobs[j].attempts

\* C3: attempts <= max_attempts for every job in every state, and no step lowers a
\* job's attempts.
C3_AttemptsBounded == [] C3_AttemptsInv /\ [][C3_AttemptsStep]_vars

\* C3 witness: after a crash during its last allowed attempt and the restart, a job is
\* queued with attempts = max_attempts.
C3_Witness ==
    /\ procUp /\ crashes > 0
    /\ \E j \in JobIds :
          jobs[j].status = "queued" /\ jobs[j].attempts = jobs[j].max_attempts

\* the step that commits the outcome of a task's job
C4_EndStep ==
    \A t \in TaskSlots :
       (tasks[t].pc \in {"raised", "completed"} /\ tasks'[t].pc = "ending") =>
          LET j == tasks[t].job
              w == jobs[j].wiki_id
          IN  IF tasks[t].pc = "completed"
              THEN jobs'[j].status = "completed" /\ wikis' = wikis
              ELSE IF jobs[j].attempts < jobs[j].max_attempts
              THEN /\ jobs'[j].status = "queued"
                   /\ jobs'[j].attempts = jobs[j].attempts
                   /\ wikis' = wikis
              ELSE /\ jobs'[j].status = "failed"
                   /\ jobs'[j].error_message = tasks[t].error
                   /\ wikis'[w].status = "failed"
                   /\ wikis'[w].error_message = tasks[t].error
                   /\ \A x \in WikiIds \ {w} : wikis'[x] = wikis[x]

\* C4: the step that commits the outcome of a task whose pipeline raised leaves the job queued (and the
\* wikis untouched) if the job's attempts, the current claim included, are below
\* max_attempts; otherwise it leaves the job failed and its wiki failed, both with the
\* raised error's message. The step that commits the outcome of a task whose pipeline
\* returned leaves the job completed.
C4_FailureHandling == [][C4_EndStep]_vars

\* C4 witness: a job has failed for good after max_attempts executions, its wiki is
\* failed with the same message, and another job has completed.
C4_Witness ==
    \E j, k \in JobIds :
        /\ jobs[j].status = "failed"
        /\ jobs[j].attempts = jobs[j].max_attempts
        /\ wikis[jobs[j].wiki_id].status = "failed"
        /\ wikis[jobs[j].wiki_id].error_message = jobs[j].error_message
        /\ jobs[j].error_message # NULL
        /\ jobs[k].status = "completed"

\* C5 (as claimed): a job that is running when the process dies eventually ends as
\* completed or failed, whatever its attempts were.
C5_CrashedJobEnds ==
    \A j \in 1..MaxWikis :
        (j \in JobIds /\ ~procUp /\ jobs[j].status = "running")
            ~> (j \in JobIds /\ jobs[j].status \in {"completed", "failed"})

\* the wiki state machine: the successor of a status
NextPhase(status) ==
    CASE status = "queued"     -> "cloning"
      [] status = "cloning"    -> "analyzing"
      [] status = "analyzing"  -> "generating"
      [] status = "generating" -> "indexing"
      [] status = "indexing"   -> "completed"
      [] OTHER                 -> "none"

\* a step of the state machine of 4.9
C6_StatusStep ==
    \A w \in WikiIds :
        wikis'[w].status # wikis[w].status =>
            \/ wikis'[w].status = NextPhase(wikis[w].status)
            \/ wikis'[w].status = "failed"

\* C6 (as claimed): every change of a wiki's status is a step to the next phase or a
\* step into failed.
C6_ForwardOnly == [][C6_StatusStep]_vars

C8_UniqueKey ==
    \A k \in Keys :
        Cardinality({w \in WikiIds : wikis[w].key = k /\ wikis[w].status # "failed"}) <= 1

\* what a queue has received: what its consumer got, then what is pending
Received(q) == delivered[q] \o queues[q]

\* C9: what a queue has received are events published for the id it subscribed to,
\* each at most once and in the order of the publish calls.
C9_PublishOrder ==
    \A q \in QueueIds :
        LET R == Received(q)
        IN  /\ \A i \in DOMAIN R :
                  /\ R[i].wiki_id = subscribedAt[q].id
                  /\ R[i].n \in DOMAIN published[R[i].wiki_id]
                  /\ published[R[i].wiki_id][R[i].n] = R[i]
            /\ \A i, k \in DOMAIN R : i < k => R[i].n < R[k].n

\* C9 witness: a queue has received three events, of which its consumer has taken
\* the first.
C9_Witness ==
    \E q \in QueueIds :
        /\ Len(delivered[q]) = 1
        /\ Len(queues[q]) = 2
        /\ delivered[q][1].type # queues[q][1].type

\* what a queue may hold
C10_NoPastEvents ==
    \A q \in QueueIds :
        \A i \in DOMAIN Received(q) :
            /\ Received(q)[i].wiki_id = subscribedAt[q].id
            /\ Received(q)[i].n > subscribedAt[q].at

\* the effect of one publish call on the queues
C10_PublishStep ==
    \A id \in BusIds :
        published'[id] # published[id] =>
            LET event == published'[id][Len(published'[id])]
            IN  \A q \in QueueIds :
                    queues'[q] =
                        IF id \in DOMAIN subscribers /\ q \in Range(subscribers[id])
                        THEN Append(queues[q], event)
                        ELSE queues[q]

\* C10: a queue holds no event published before it subscribed and none published for
\* another id; a publish call appends its event to every queue registered for the id
\* and changes no other queue.
C10_ExactlySubscribed == [] C10_NoPastEvents /\ [][C10_PublishStep]_vars

\* C10 witness: a queue subscribed after an event had been published for its id, has
\* received a later event for its id, and an event was published for another id.
C10_Witness ==
    \E q \in QueueIds : \E other \in BusIds :
        /\ subscribedAt[q].at >= 1
        /\ Len(Received(q)) >= 1
        /\ other # subscribedAt[q].id
        /\ Len(published[other]) >= 1

\* the step that marks a wiki failed
C11_FailedStep ==
    \A w \in WikiIds :
        (wikis[w].status # "failed" /\ wikis'[w].status = "failed") =>
            emitted'[w] = "error"

\* C11 (as claimed): the step that marks a wiki failed (its job failed for the last
\* time) publishes an event of type error for that wiki.
C11_ErrorEvent == [][C11_FailedStep]_vars

\* C12: an execution that still holds a sandbox create_sandbox returned (one not yet
\* passed to destroy_sandbox) is inside the try block: an execution that has returned,
\* raised or been cancelled holds none.
C12_SandboxDestroyed ==
    \A t \in TaskSlots : tasks[t].sandbox => tasks[t].pc \in InSandboxScope

\* C12 witness: a task was cancelled in the page generation of its job's first
\* execution (so after create_sandbox returned), and another job's execution has
\* raised.
C12_Witness ==
    /\ crashes = 0
    /\ \E t \in TaskSlots :
          /\ tasks[t].pc = "cancelled"
          /\ jobs[tasks[t].job].attempts = 1
          /\ wikis[tasks[t].wiki_id].status = "generating"
    /\ \E j \in JobIds : jobs[j].error_message # NULL

\* C13 (as claimed): once stop() has returned the poll loop has ended and no job task
\* is in flight.
C13_StopReturned ==
    stopPc = "returned" => (pollPc = "none" /\ InFlight = {})

\* the last event sent
LastEvent == sse.last2[Len(sse.last2)]

\* the run was not ended by an exception and every model turn carried a tool call
C14_AllToolTurns ==
    /\ agent.pc \in {"returned", "ended"}
    /\ agent.error = NULL
    /\ agent.toolTurns = agent.iteration

\* C14: at most MAX_ITERATIONS model calls are made; a run that no exception ended
\* and in which every model turn carried a tool call has made MAX_ITERATIONS
\* tool-calling iterations and its events end with the closing text_delta, then done;
\* after a done no event is sent, and there is one done at most.
C14_IterationCap ==
    /\ agent.iteration <= MAX_ITERATIONS
    /\ agent.toolTurns <= agent.iteration
    /\ C14_AllToolTurns =>
          /\ agent.toolTurns = MAX_ITERATIONS
          /\ sse.last2 = <<ChatEvent("text_delta", "cap"), ChatEvent("done", NULL)>>
    /\ sse.ndone >= 1 =>
          /\ sse.ndone = 1
          /\ LastEvent.type = "done"
          /\ agent.pc \in {"returned", "ended"}

\* C14 witness: the run has returned after MAX_ITERATIONS turns that all carried
\* tool calls.
C14_Witness ==
    /\ agent.pc = "returned"
    /\ agent.toolTurns = MAX_ITERATIONS
    /\ sse.ndone = 1

\* the failure of a dispatch as text: of an unknown name, of arguments that do not
\* fit, of a tool that raises
C15_Failure(call) ==
    ExecuteTool(call.name, JsonLoads(call.arguments_str), call.fails).text

\* the step that dispatches a tool call
C15_DispatchStep ==
    (agent.pc = "tools" /\ agent' # agent) =>
        LET p == Head(agent.pending)
        IN  C15_Failure(p.call) # "output" =>
               /\ agent'.pc \in {"tools", "call"}
               /\ agent'.turn = Append(agent.turn, ToolMessage(p.id, C15_Failure(p.call)))

\* C15 (as claimed): a dispatch that fails (unknown tool name, arguments that do not
\* fit, an error raised by the tool) appends the failure's text as that call's tool
\* message and the loop goes on.
C15_ToolErrorsContained == [][C15_DispatchStep]_vars

\* C16: once an exception has left run_agent and the stream has ended, exactly one
\* error event was sent, it carries the exception's message, it is the last event and
\* no done was sent; an error event is sent in no other case.
C16_ErrorTerminates ==
    /\ (agent.pc = "ended" /\ agent.error # NULL) =>
          /\ sse.nerror = 1
          /\ LastEvent = ChatEvent("error", agent.error)
          /\ sse.ndone = 0
    /\ sse.nerror >= 1 =>
          /\ sse.nerror = 1
          /\ LastEvent.type = "error"
          /\ agent.pc = "ended" /\ agent.error # NULL

\* C16 witness: the stream has ended with the error of a tool that raised in the
\* second or a later iteration, after a tool_start.
C16_Witness ==
    /\ agent.pc = "ended"
    /\ agent.error = "PostgresError"
    /\ agent.iteration >= 2
    /\ sse.last2[1].type = "tool_start"

\* the answer of a dedup check
C17_DedupStep ==
    \A c \in IngestSlots :
        (ingests[c].pc \in {"idle", "returned", "raised"} /\ ingests'[c] # ingests[c]) =>
            (ingests'[c].answer = "already_exists"
                <=> \E r \in RepoIds :
                       repos[r].url = ingests'[c].url /\ repos[r].status = "ready")

\* C17 (as claimed): ingest_repo answers already_exists exactly when a row in status
\* ready exists for the url (so not for a url whose row is in status error).
C17_DedupReadyOnly == [][C17_DedupStep]_vars

\* the rows and the requests
C18_Inv ==
    /\ \A r \in RepoIds : repos[r].status = "ready" => r \in loaded
    /\ \A c \in IngestSlots :
          /\ ingests[c].tmpdir => ingests[c].pc = "walk"
          /\ (ingests[c].pc = "raised" /\ ingests[c].repo # 0) =>
                repos[ingests[c].repo].status = "error"

\* a change of status, and the end of a failed clone, walk or load
C18_Step ==
    /\ \A r \in RepoIds :
          repos'[r].status # repos[r].status =>
             /\ repos[r].status = "ingesting"
             /\ repos'[r].status \in {"ready", "error"}
    /\ \A c \in IngestSlots :
          (ingests[c].pc \in {"clone", "walk"} /\ ingests'[c].pc = "raised") =>
             /\ repos'[ingests[c].repo].status = "error"
             /\ ingests'[c].answer \in {"RuntimeError", "Exception"}
             /\ ~ingests'[c].tmpdir

\* C18: a row's status changes only from ingesting to ready or from ingesting to
\* error; a request whose clone, walk or load fails leaves its row in error and ends
\* with the exception; a row in status ready has its file records loaded; a request
\* holds a temporary directory only between its clone and the end of its load.
C18_IngestStatus == [] C18_Inv /\ [][C18_Step]_vars

\* C18 witness: one url was ingested and is ready, the request for another failed in
\* its walk or load and its row is in error.
C18_Witness ==
    \E c \in IngestSlots : \E r \in RepoIds :
        /\ ingests[c].pc = "raised"
        /\ ingests[c].answer = "Exception"
        /\ repos[ingests[c].repo].status = "error"
        /\ repos[r].status = "ready"
(* ------------------------------ C19, C20 ------------------------------- *)
\* the paths a list_files answer names: its lines, none for "No files matching"
PathsNamed(lines) ==
    IF lines # <<>> /\ lines[1] # <<>> /\ lines[1][1] = "No files matching: " THEN {}
    ELSE Range(lines)

\* the globs **/*.X
ExtensionGlob(X) == <<"*", "*", "/", "*", ".", X>>

\* C19: list_files with the glob **/*.X returns exactly the paths of the rows
\* whose extension is .X and whose is_directory is false, the files at the
\* repository root included and the directories excluded.
C19_GlobByExtension ==
    \A X \in {"py", "js"} :
        (result.tool = "list_files" /\ result.path = ExtensionGlob(X)) =>
            PathsNamed(result.lines)
                = {files[i].path : i \in {k \in DOMAIN files :
                        /\ files[k].extension = <<".", X>>
                        /\ ~files[k].is_directory}}

\* the position of the first " | " of an output line, 0 if it has none
Separator(line) ==
    LET seps == {i \in DOMAIN line : line[i] = " | "}
    IN  IF seps = {} THEN 0 ELSE CHOOSE i \in seps : \A k \in seps : i <= k

\* int(digits)
RECURSIVE ParseInt(_)
ParseInt(digits) ==
    IF digits = <<>> THEN 0
    ELSE 10 * ParseInt(SubSeq(digits, 1, Len(digits) - 1))
         + (CHOOSE d \in 0..9 : Digits[d + 1] = digits[Len(digits)])

\* the number an output line carries left of its first " | ", -1 if it is not a
\* right-aligned decimal number
LineNumber(line) ==
    LET left   == SubSeq(line, 1, Separator(line) - 1)
        digits == LStrip(left, {" "})
    IN  IF Separator(line) = 0 \/ digits = <<>> \/ ~(Range(digits) \subseteq Range(Digits))
        THEN -1
        ELSE ParseInt(digits)

\* the text of an output line right of its first " | "
LineText(line) == SubSeq(line, Separator(line) + 1, Len(line))

\* the total a truncation notice carries, -1 if the line is not such a notice
NoticeTotal(line) ==
    IF Len(line) >= 3 /\ line[1] = "... truncated (" /\ line[Len(line)] = " total lines). Use start_line/end_line to read specific sections."
    THEN ParseInt(SubSeq(line, 2, Len(line) - 1))
    ELSE -1

\* the content of the file a read_file call names
SourceOf(path) == files[CHOOSE i \in DOMAIN files : files[i].path = path].content

C24_Timestamps ==
    \A w \in WikiIds :
        /\ wikis[w].status \notin {"queued", "failed"} => wikis[w].started_at # NULL
        /\ wikis[w].status \in {"completed", "failed"} => wikis[w].completed_at # NULL

\* each wiki has exactly one job
C25_OneJob ==
    \A w \in WikiIds : Cardinality({j \in JobIds : jobs[j].wiki_id = w}) = 1

\* a step that adds a row adds one wiki in status queued and one job in status
\* queued for it, and no wiki with the new wiki's key was completed
C25_CreateStep ==
    (Len(wikis') # Len(wikis) \/ Len(jobs') # Len(jobs)) =>
        /\ Len(wikis') = Len(wikis) + 1
        /\ Len(jobs') = Len(jobs) + 1
        /\ wikis'[Len(wikis')].status = "queued"
        /\ jobs'[Len(jobs')].status = "queued"
        /\ jobs'[Len(jobs')].wiki_id = Len(wikis')
        /\ \A w \in WikiIds :
              wikis[w].key = wikis'[Len(wikis')].key => wikis[w].status # "completed"

\* C25 (as claimed): each wiki has exactly one job; a step that adds a row adds one
\* queued wiki and one queued job for it; no create_wiki call for a key that has a
\* completed wiki adds a row.
C25_CreateWiki == [] C25_OneJob /\ [][C25_CreateStep]_vars

\* the jobs a claim may select: queued with attempts < max_attempts
C26_Claimable(j) == jobs[j].status = "queued" /\ jobs[j].attempts < jobs[j].max_attempts

\* a step in which _dequeue_next returns
C26_ClaimStep ==
    (pollPc = "dequeue" /\ pollPc' = "acquire") =>
        IF \E j \in JobIds : C26_Claimable(j)
        THEN jobs' # jobs =>
               \E j \in JobIds :
                  /\ C26_Claimable(j)
                  /\ \A k \in JobIds :
                        C26_Claimable(k) =>
                           \/ jobs[k].priority < jobs[j].priority
                           \/ /\ jobs[k].priority = jobs[j].priority
                              /\ jobs[k].created_at >= jobs[j].created_at
                  /\ jobs' = [jobs EXCEPT ![j].status = "running",
                                          ![j].started_at = "set",
                                          ![j].attempts = jobs[j].attempts + 1]
                  /\ \E t \in TaskSlots :
                        /\ tasks[t].pc = "none" /\ tasks'[t].pc = "start"
                        /\ tasks'[t].job = j
                        /\ tasks'[t].attempts = jobs[j].attempts + 1
        ELSE jobs' = jobs /\ tasks' = tasks /\ semaphore' = semaphore + 1

\* C26: a _dequeue_next that changes the jobs table selects, among the jobs in
\* status queued with attempts < max_attempts, one of highest priority and, among
\* those, of earliest created_at; sets it to running with attempts increased by
\* exactly 1, changes no other job and returns the updated row to the new task;
\* when no job is eligible it changes nothing and the slot is released.
C26_ClaimOrder == [][C26_ClaimStep]_vars

\* C26 witness: a job has been claimed ahead of a claimable job that was created
\* earlier and has a lower priority.
C26_Witness ==
    \E t \in InFlight : \E k \in JobIds :
        /\ jobs[tasks[t].job].status = "running"
        /\ C26_Claimable(k)
        /\ jobs[k].created_at < jobs[tasks[t].job].created_at
        /\ jobs[k].priority < jobs[tasks[t].job].priority

\* a step in which start() runs
C27_StartStep ==
    (~procUp /\ procUp') =>
        /\ wikis' = wikis
        /\ DOMAIN jobs' = DOMAIN jobs
        /\ \A j \in JobIds :
              IF jobs[j].status = "running"
              THEN jobs'[j] = [jobs[j] EXCEPT !.status = "queued", !.worker_id = NULL]
              ELSE jobs'[j] = jobs[j]

\* C27: start() changes only jobs in status running: each becomes queued with
\* worker_id cleared and every other column, attempts included, as it was; every
\* other job row and every wiki row is left unchanged.
C27_StartFrame == [][C27_StartStep]_vars

\* C27 witness: start() has requeued a job that was running in its first execution,
\* next to a failed job.
C27_Witness ==
    /\ procUp
    /\ \E j, k \in JobIds :
          /\ jobs[j].status = "queued" /\ jobs[j].attempts = 1
          /\ jobs[j].worker_id = NULL /\ jobs[j].started_at = "set"
          /\ jobs[k].status = "failed" /\ jobs[k].attempts = DefaultMaxAttempts

\* no job is failed with attempts < max_attempts
C28_FailedInv ==
    \A j \in JobIds : jobs[j].status = "failed" => jobs[j].attempts >= jobs[j].max_attempts

\* executions are counted by attempts: a step raises a job's attempts exactly when
\* it starts an execution of the job, and then by one
C28_ExecutionStep ==
    \A j \in JobIds :
        LET started == \E t \in TaskSlots :
                          tasks[t].pc = "none" /\ tasks'[t].pc = "start" /\ tasks'[t].job = j
        IN  /\ started => jobs'[j].attempts = jobs[j].attempts + 1
            /\ ~started => jobs'[j].attempts = jobs[j].attempts

\* C28: when every pipeline execution raises and the process neither dies nor is
\* shut down, every job is eventually marked failed after exactly max_attempts
\* executions; no job is ever in status failed with attempts < max_attempts.
C28_RetriesExhausted ==
    /\ [] C28_FailedInv
    /\ [][C28_ExecutionStep]_vars
    /\ \A j \in 1..MaxWikis :
          (j \in JobIds) ~> (/\ j \in JobIds
                             /\ jobs[j].status = "failed"
                             /\ jobs[j].attempts = jobs[j].max_attempts)

\* C28 witness: a job has failed for good after max_attempts executions, the last
\* of which raised in the manifest phase, while another job waits for a retry.
C28_Witness ==
    \E j, k \in JobIds :
        /\ jobs[j].status = "failed"
        /\ jobs[j].attempts = jobs[j].max_attempts
        /\ jobs[j].error_message = ErrorOf("indexing")
        /\ wikis[jobs[j].wiki_id].status = "failed"
        /\ jobs[k].status = "queued" /\ jobs[k].attempts >= 1

\* the first token of a line, "" for an empty line
FirstToken(line) == IF line = <<>> THEN "" ELSE line[1]

\* a line that is a truncation notice
IsNotice(line) == FirstToken(line) \in {"... ", "... truncated (", "... truncated at "}

\* the entries of an output: its lines other than the notice and the empty line
\* before it
Entries(lines) ==
    LET IsEntry(line) == line # <<>> /\ ~IsNotice(line)
    IN  SelectSeq(lines, IsEntry)

\* the output ends with a truncation notice
HasNotice(lines) == lines # <<>> /\ IsNotice(lines[Len(lines)])

\* the number of rows a list_files call selects
Selected(arg) ==
    LET path == Strip(arg, {"/"})
    IN  IF "*" \in Range(path)
        THEN Cardinality({i \in DOMAIN files : FnMatch(files[i].path, path)})
        ELSE Cardinality({i \in DOMAIN files : files[i].parent_path = path})

\* C21 (as claimed): an output of list_files has at most 200 entries, one of
\* read_file at most 500, one of search_code at most 50, and a list_files call
\* that selects more than 200 rows ends its output with a truncation notice, in
\* directory mode and in glob mode.
C21_OutputsCapped ==
    /\ result.tool = "list_files" =>
          /\ Len(Entries(result.lines)) <= MAX_LIST_RESULTS
          /\ Selected(result.path) > MAX_LIST_RESULTS => HasNotice(result.lines)
    /\ result.tool = "read_file" => Len(Entries(result.lines)) <= MAX_FILE_LINES
    /\ result.tool = "search_code" => Len(Entries(result.lines)) <= MAX_SEARCH_MATCHES

\* the matching lines a search_code output names
MatchesNamed(lines) ==
    IF FirstToken(lines[1]) = "No matches found for pattern: " THEN <<>>
    ELSE Entries(lines)

\* the compiled regex applied line by line to every non-directory file, in path
\* then line order
MatchesOfRepo(pattern) ==
    LET IsFile(row) == ~row.is_directory
        rows == SelectSeq(files, IsFile)
    IN  FlattenSeq([i \in DOMAIN rows |-> MatchLines(rows[i], pattern)])

\* C22 (as claimed): for a valid pattern and no glob, the matching lines
\* search_code returns are the first 50 of the lines the regex matches in the
\* non-directory files of the repository, in path then line order.
C22_PrefilterSound ==
    (result.tool = "search_code" /\ result.glob = <<>> /\ ~InvalidRegex(result.path)) =>
        MatchesNamed(result.lines)
            = Take(MatchesOfRepo(result.path), MAX_SEARCH_MATCHES)

\* C23 (as claimed): the health probe answers status ok with the version, its
\* active_jobs is the number of job tasks in flight, and the job ids in active_jobs
\* are the jobs of the tasks in flight.
C23_HealthActiveJobs ==
    /\ HealthCheck.status = "ok"
    /\ HealthCheck.version = AppVersion
    /\ HealthCheck.active_jobs = Cardinality(InFlight)
    /\ DOMAIN active_jobs = {tasks[t].job : t \in InFlight}

\* s is an initial part of t
IsPrefix(s, t) == Len(s) <= Len(t) /\ \A i \in DOMAIN s : s[i] = t[i]

\* the statuses of the status_change and complete events, in publication order
StatusesPublished ==
    LET IsStatusEvent(e) == e.type \in {"status_change", "complete"}
        es == SelectSeq(pipeline.events, IsStatusEvent)
    IN  [i \in DOMAIN es |-> es[i].status]

\* the complete events published
CompleteEvents ==
    LET IsComplete(e) == e.type = "complete"
    IN  SelectSeq(pipeline.events, IsComplete)

\* the agent calls of page generation that have started
PagesStarted ==
    {p \in DOMAIN pipeline.page : pipeline.page[p] \in {"running", "completed", "raised"}}

\* the status a pipeline at this position must have committed before
CommittedAt(pc) ==
    CASE pc \in {"create_sandbox", "metadata"}            -> "cloning"
      [] pc = "analyze"                                   -> "analyzing"
      [] pc \in {"write_pages", "wave", "as_completed"}   -> "generating"
      [] pc = "manifest"                                  -> "indexing"
      [] pc = "returned"                                  -> "completed"
      [] OTHER                                            -> NULL

\* C29: within one pipeline execution the status writes occur in the order cloning,
\* analyzing, generating, indexing, completed; each is committed before the work of
\* its phase (sandbox creation, analysis, page generation, manifest) starts and
\* before its event is published; completed is written only after all earlier
\* phases finished, and the execution that wrote it publishes exactly one complete
\* event, as its next step.
C29_PhaseOrder ==
    /\ IsPrefix(pipeline.writes,
                <<"cloning", "analyzing", "generating", "indexing", "completed">>)
    /\ IsPrefix(StatusesPublished, pipeline.writes)
    /\ Len(StatusesPublished) < Len(pipeline.writes) => pipeline.pc = "publish"
    /\ CommittedAt(pipeline.pc) # NULL =>
          /\ pipeline.writes # <<>>
          /\ pipeline.writes[Len(pipeline.writes)] = CommittedAt(pipeline.pc)
          /\ wikis[pipeline.wiki_id].status = CommittedAt(pipeline.pc)
    /\ PagesStarted # {} => Len(pipeline.writes) >= 3
    /\ \A i \in DOMAIN pipeline.events :
          pipeline.events[i].type = "page_complete" =>
              Cardinality({j \in 1..i : pipeline.events[j].type = "status_change"}) = 3
    /\ "completed" \in Range(pipeline.writes) =>
          /\ pipeline.finished = {"create_sandbox", "analyze", "write_pages", "manifest"}
          /\ \A p \in DOMAIN pipeline.page : pipeline.page[p] = "completed"
          /\ ~pipeline.raised
    /\ Len(CompleteEvents) <= 1
    /\ pipeline.pc = "returned" =>
          /\ Len(CompleteEvents) = 1
          /\ pipeline.events[Len(pipeline.events)].type = "complete"
    /\ pipeline.pc = "raised" => CompleteEvents = <<>>

\* C29 witness: an execution of a plan with pages has returned: five status writes,
\* five status events, page_complete events in between.
C29_Witness ==
    /\ pipeline.pc = "returned"
    /\ Len(pipeline.writes) = 5
    /\ Len(StatusesPublished) = 5
    /\ Len(pipeline.yielded) >= 2
    /\ wikis[pipeline.wiki_id].status = "completed"

\* the wave of a page, by the id of its section
WaveNumber(p) ==
    CASE p.section \in {"", "architecture"}      -> 1
      [] p.section = "modules"                   -> 2
      [] p.section \in {"guides", "api-reference"} -> 3

\* the slugs of the pages of the plan that belong to a wave
SlugsOfWaves ==
    {p.slug : p \in {q \in Range(AllPages(pipeline.analysis)) :
                        q.section \in {"", "architecture", "modules", "guides",
                                       "api-reference"}}}

\* C30: page generation runs wave by wave in the order architecture/unsectioned,
\* modules, guides and API reference: no agent call for a page of a later wave has
\* started unless every page of every earlier wave has completed, and each page of a
\* wave is yielded at most once, exactly once when write_pages is exhausted.
C30_WaveByWave ==
    /\ \A p \in PagesStarted : \A q \in DOMAIN pipeline.page :
          WaveNumber(q) < WaveNumber(p) =>
              pipeline.page[q] = "completed" /\ q.slug \in Range(pipeline.yielded)
    /\ \A i, j \in DOMAIN pipeline.yielded :
          pipeline.yielded[i] = pipeline.yielded[j] => i = j
    /\ Range(pipeline.yielded) \subseteq SlugsOfWaves
    /\ "write_pages" \in pipeline.finished => Range(pipeline.yielded) = SlugsOfWaves

\* C30 witness: write_pages is exhausted after two waves, the first of two pages
\* that were yielded in the order opposite to the plan's.
C30_Witness ==
    /\ "write_pages" \in pipeline.finished
    /\ Len(pipeline.yielded) = 3
    /\ pipeline.yielded[1] = <<1, 2>>
    /\ pipeline.yielded[2] = <<1, 1>>
    /\ pipeline.yielded[3] = <<2, 1>>
    /\ pipeline.analysis[1].id = "architecture"
    /\ pipeline.analysis[2].id = "guides"

(* C31..C40 *)
\* the page-generation agent calls that are running
PagesRunning == {p \in DOMAIN pipeline.page : pipeline.page[p] = "running"}

\* C31: within one pipeline execution at most codex_max_concurrent page-generation
\* agent calls are running at any moment, whatever the number of pages in the wave.
C31_CodexBounded ==
    /\ Cardinality(PagesRunning) <= CodexMaxConcurrent
    /\ Cardinality(PagesRunning) + pipeline.codex =
          (IF pipeline.pc = "none" THEN 0 ELSE CodexMaxConcurrent)

\* C31 witness: a wave of four pages, three agent calls running, the fourth page's
\* task waiting for the semaphore.
C31_Witness ==
    /\ Cardinality(PagesRunning) = CodexMaxConcurrent
    /\ pipeline.codex = 0
    /\ \E p \in DOMAIN pipeline.page : pipeline.page[p] = "created"

\* the messages run_agent appended since its last model call are the assistant
\* message of the turn's tool calls, then one tool message per call id, in index order
TurnAnswered ==
    /\ agent.turn # <<>>
    /\ agent.turn[1].role = "assistant"
    /\ LET ids == agent.turn[1].tool_calls
       IN  /\ ids # <<>>
           /\ \A i, j \in DOMAIN ids : ids[i] = ids[j] => i = j
           /\ Len(agent.turn) = 1 + Len(ids)
           /\ \A i \in DOMAIN ids :
                 /\ agent.turn[i + 1].role = "tool"
                 /\ agent.turn[i + 1].tool_call_id = ids[i]

\* at every model call after a turn with tool calls the turn is answered
C32_AtModelCall ==
    (agent.pc = "call" /\ agent.toolTurns > 0) => TurnAnswered

\* a step of a turn with tool calls appends the assistant message carrying all the
\* calls, or, for the next call in index order, emits tool_start, then tool_end, and
\* appends the tool message of that call; a turn without tool calls emits done and
\* no model call follows it
C32_TurnStep ==
    /\ (agent.pc = "call" /\ agent'.pc = "tools") =>
          /\ agent'.turn = <<AssistantMessage([i \in DOMAIN agent'.pending |->
                                                  agent'.pending[i].id])>>
          /\ agent'.nmessages = agent.nmessages + 1
    /\ (agent.pc = "tools" /\ agent'.pc \in {"tools", "call"}) =>
          LET p == Head(agent.pending)
          IN  /\ agent'.pending = Tail(agent.pending)
              /\ Len(agent'.turn) = Len(agent.turn) + 1
              /\ agent.turn[1].tool_calls[Len(agent.turn)] = p.id
              /\ agent'.turn[Len(agent'.turn)].role = "tool"
              /\ agent'.turn[Len(agent'.turn)].tool_call_id = p.id
              /\ agent'.nmessages = agent.nmessages + 1
              /\ sse'.last2 = <<ChatEvent("tool_start", p.call.name),
                                ChatEvent("tool_end", p.call.name)>>
              /\ (agent'.pc = "call") = (Tail(agent.pending) = <<>>)
    /\ (agent.pc = "call" /\ agent'.pc = "returned" /\ WithinCap(agent.iteration)) =>
          /\ sse'.ndone = sse.ndone + 1
          /\ sse'.last2[Len(sse'.last2)] = ChatEvent("done", NULL)
          /\ agent'.nmessages = agent.nmessages
    /\ agent.pc \in {"returned", "raised", "ended"} =>
          agent'.iteration = agent.iteration

\* C32: in a model turn that accumulated tool calls run_agent appends one assistant
\* message carrying all the calls, then for each call in increasing index order
\* emits tool_start, dispatches the tool, emits tool_end and appends one tool message
\* keyed to that call's id, so at every model call the messages hold, after the
\* assistant tool-call message, exactly one tool message per call id in index order;
\* a turn without tool calls emits done and makes no further model call.
C32_ToolTurns == [] C32_AtModelCall /\ [][C32_TurnStep]_vars

\* C32 witness: the second model call is about to be made after a turn of two tool
\* calls, both answered.
C32_Witness ==
    /\ agent.pc = "call"
    /\ agent.toolTurns = 1
    /\ Len(agent.turn) = 3
    /\ TurnAnswered

\* the events published for the id of a queue after it subscribed
PublishedSince(q) ==
    LET events == published[subscribedAt[q].id]
    IN  SubSeq(events, subscribedAt[q].at + 1, Len(events))

\* the queue is registered with the bus
Registered(q) == \E id \in DOMAIN subscribers : q \in Range(subscribers[id])

\* the stream of a queue has sent a complete or error event
SentTerminal(q) ==
    \E i \in DOMAIN delivered[q] : delivered[q][i].type \in {"complete", "error"}

\* C33: the wiki event stream forwards the events published for its id in order and
\* stops right after the first event of type complete or error; whenever the stream
\* ends, by such an event or by the client disconnecting, its queue is unsubscribed
\* from the event bus.
C33_StreamEnds ==
    \A q \in QueueIds :
        /\ IsPrefix(delivered[q], PublishedSince(q))
        /\ \A i \in DOMAIN delivered[q] :
              delivered[q][i].type \in {"complete", "error"} => i = Len(delivered[q])
        /\ SentTerminal(q) => streams[q] \in {"yielded", "ended"}
        /\ (streams[q] = "ended") = ~Registered(q)
        /\ streams[q] # "ended" =>
              q \in Range(SubscribersOf(subscribers, subscribedAt[q].id))

\* C33 witness: one stream has ended after a status_change and an error event, one
\* was closed by its client with an event pending; neither queue is registered.
C33_Witness ==
    \E q, r \in QueueIds :
        /\ streams[q] = "ended" /\ Len(delivered[q]) = 2
        /\ delivered[q][1].type = "status_change" /\ delivered[q][2].type = "error"
        /\ streams[r] = "ended" /\ ~SentTerminal(r) /\ queues[r] # <<>>
        /\ ~Registered(q) /\ ~Registered(r)

\* the positions of the lines a read_file call with these bounds is to return, for a
\* file of total lines: the last min(k, total) for start_line = -k, else start..end
\* with the defaults start = 1 and end = total
PositionsAsked(total, start_line, end_line) ==
    IF start_line # None /\ start_line[1] < 0
    THEN LET k == IF -start_line[1] < total THEN -start_line[1] ELSE total
         IN  (total - k + 1)..total
    ELSE LET start == IF start_line = None \/ start_line = Some(0) THEN 1
                      ELSE start_line[1]
             end   == IF end_line = None \/ end_line = Some(0) THEN total
                      ELSE IF end_line[1] > total THEN total ELSE end_line[1]
         IN  start..end

\* C34 (as claimed): for every file and every start_line and end_line, 0 and a
\* negative start_line beyond the file's length included, read_file returns the lines
\* asked for, each carrying the 1-indexed number of its true position in the file.
C34_TruePositions ==
    result.tool = "read_file" =>
        LET source == SourceOf(result.path)
            asked  == PositionsAsked(Len(source), result.start_line, result.end_line)
            out    == result.lines
        IN  /\ Len(out) = Cardinality(asked)
            /\ \A i \in DOMAIN out :
                  /\ LineNumber(out[i]) \in asked
                  /\ LineNumber(out[i]) \in DOMAIN source
                  /\ LineText(out[i]) = source[LineNumber(out[i])]
                  /\ i > 1 => LineNumber(out[i]) = LineNumber(out[i - 1]) + 1

\* what holds of read_file: the lines returned are the lines asked for, in order; they
\* carry their true positions unless start_line is negative beyond the file's length
LinesReturned ==
    result.tool = "read_file" =>
        LET source == SourceOf(result.path)
            total  == Len(source)
            asked  == PositionsAsked(total, result.start_line, result.end_line)
            out    == result.lines
            beyond == result.start_line # None /\ -result.start_line[1] > total
        IN  /\ Len(out) = Cardinality(asked)
            /\ \A i \in DOMAIN out :
                  \E pos \in asked :
                      /\ LineText(out[i]) = source[pos]
                      /\ ~beyond => LineNumber(out[i]) = pos
            /\ (total = 30 /\ result.start_line = Some(-5)) =>
                  [i \in DOMAIN out |-> LineNumber(out[i])] = <<26, 27, 28, 29, 30>>

\* the queues of a bucket other than q, in order
Others(subs, id, q) ==
    LET NotQ(x) == x # q
    IN  SelectSeq(subs[id], NotQ)

\* C35: in every reachable state of the event bus no wiki id maps to an empty
\* subscriber list: unsubscribe removes the given queue and deletes the id's bucket
\* when that was its last subscriber; unsubscribing a queue that is not registered
\* under the id leaves all subscribers unchanged.
C35_NoEmptyBucket ==
    /\ \A id \in DOMAIN subscribers : subscribers[id] # <<>>
    /\ \A id \in BusIds, q \in QueueIds :
          LET after == RemoveSubscriber(subscribers, id, q)
          IN  IF id \in DOMAIN subscribers /\ q \in Range(subscribers[id])
              THEN /\ \A other \in DOMAIN subscribers \ {id} :
                         other \in DOMAIN after /\ after[other] = subscribers[other]
                   /\ DOMAIN after \subseteq DOMAIN subscribers
                   /\ IF Others(subscribers, id, q) = <<>>
                      THEN id \notin DOMAIN after
                      ELSE id \in DOMAIN after
                           /\ after[id] = Others(subscribers, id, q)
              ELSE after = subscribers

\* C35 witness: the only subscriber of an id has left and the id has no bucket, while
\* another id keeps its subscriber.
C35_Witness ==
    \E q, r \in QueueIds :
        /\ subscribedAt[q].id \notin DOMAIN subscribers
        /\ subscribedAt[r].id \in DOMAIN subscribers
        /\ subscribers[subscribedAt[r].id] = <<r>>

\* a step leaves the wikis whose status is completed as they are
C36_CompletedStep ==
    \A w \in WikiIds : wikis[w].status = "completed" => wikis'[w].status = "completed"

\* C36 (as claimed): once a wiki's status is completed it never changes again, not
\* after a crash or a failure that happens after the wiki was marked completed and
\* before its job was.
C36_CompletedIsFinal == [][C36_CompletedStep]_vars

\* C37: the orchestrator's concurrency slots are conserved: whenever the poll loop is
\* between iterations, free slots + job tasks in flight = max_concurrent_jobs, after
\* any sequence of claims, empty polls, dequeue errors, completions and failures; the
\* free slots never exceed max_concurrent_jobs.
C37_SlotsConserved ==
    /\ semaphore \in 0..DefaultMaxConcurrentJobs
    /\ pollPc \in {"none", "acquire"} =>
          semaphore + Cardinality(InFlight) = DefaultMaxConcurrentJobs
    /\ pollPc = "dequeue" =>
          semaphore + Cardinality(InFlight) + 1 = DefaultMaxConcurrentJobs

\* C37 witness: the poll loop is between iterations with no free slot and two tasks
\* in flight, after a completion and a failure.
C37_Witness ==
    /\ pollPc = "acquire"
    /\ semaphore = 0
    /\ Cardinality(InFlight) = DefaultMaxConcurrentJobs
    /\ \E j \in JobIds : jobs[j].attempts >= 2

\* C38 (as claimed): after delete_wiki(id) has returned, neither the wiki row nor a
\* storage directory for that wiki exists, in every interleaving with a pipeline
\* execution for the same wiki that is in flight when the delete happens.
C38_DeletedStaysDeleted ==
    deletion.pc = "returned" =>
        /\ deletion.wiki_id \notin DOMAIN wikis
        /\ deletion.wiki_id \notin storage

\* after delete_wiki has returned the row does not exist
RowStaysDeleted ==
    deletion.pc = "returned" => deletion.wiki_id \notin DOMAIN wikis

\* the job and its wiki have reached an end status
Settled(j) ==
    /\ j \in JobIds
    /\ jobs[j].status \in {"completed", "failed"}
    /\ wikis[jobs[j].wiki_id].status \in {"completed", "failed"}

\* C39: when every pipeline execution terminates, the process does not crash and the
\* poll loop is scheduled fairly, every job that is created eventually reaches status
\* completed or failed, and its wiki eventually reaches status completed or failed.
C39_JobsSettle ==
    \A j \in 1..MaxWikis : (j \in JobIds) ~> Settled(j)

\* C39 witness: one job has completed with its wiki, another has failed with its wiki
\* after max_attempts executions.
C39_Witness ==
    \E j, k \in JobIds :
        /\ jobs[j].status = "completed" /\ wikis[jobs[j].wiki_id].status = "completed"
        /\ jobs[k].status = "failed" /\ wikis[jobs[k].wiki_id].status = "failed"
        /\ jobs[k].attempts = jobs[k].max_attempts

\* the text of a whole file, by lines: each line behind its number
WholeFile(content) ==
    [i \in DOMAIN content |-> FormatLine(i, StrLen(Len(content)), content[i])]

\* the file rows the last read_file call named by one of the spellings of their path
RowsAsked ==
    {i \in DOMAIN files : ~files[i].is_directory /\ result.path \in Spellings(files[i].path)}

\* C40: read_file finds every ingested file by its stored repo-relative path p, also
\* given as "./" + p or p + "/": it returns that file's content and not "No such file
\* or directory", also when the first segment of p begins with a dot.
C40_FindsEveryFile ==
    result.tool = "read_file" =>
        \A i \in RowsAsked : result.lines = WholeFile(files[i].content)

\* what does hold: the files whose path does not begin with a dot are found
FindsPlainFiles ==
    result.tool = "read_file" =>
        \A i \in RowsAsked :
            Head(files[i].path) # "." => result.lines = WholeFile(files[i].content)

====
